---- MODULE Spec2Model ----
(***************************************************************************)
(* A model of the optimization driver of cdtools' CDIModel                 *)
(* (src/src/cdtools/models/base.py): the AD_optimize generator, its        *)
(* run_iteration epoch, the closure handed to optimizer.step, and the      *)
(* background "calculator" thread with its stop event and result queue.    *)
(*                                                                         *)
(* The forward model, the loss and the optimizer are capabilities the      *)
(* driver only calls.  They are given small deterministic stand-ins        *)
(* (PatLoss, PatGrad, OptUpdate) whose only assumed property is the one    *)
(* the driver relies on: loss and gradient of a chunk are sums over the    *)
(* patterns of the chunk.                                                  *)
(*                                                                         *)
(* Also modelled: the stage methods and their composition in forward, the  *)
(* Adam/LBFGS/SGD wrappers with their subset argument, the detector        *)
(* geometry buffers, the measurements                                      *)
(* (src/CDTools/tools/measurements/measurements.py) and the polarization   *)
(* optics (src/CDTools/tools/polarization/polarization.py).                *)
(***************************************************************************)
EXTENDS Integers, Sequences, FiniteSets, TLC

\* ------------------------------------------------------------------ bounds
MaxPat == 3
  \* largest number of patterns in the dataset
MaxRecord == 2
  \* longest Loss Record the successive calls may aim at, and so the
  \* largest iteration count of one call
MaxEvals == 2
  \* closure evaluations one optimizer.step may make
MaxSubset == 2
  \* longest subset list handed to a wrapper
MaxEps == 1
  \* largest epsilon handed to a measurement
MaxSat == 2
  \* largest saturation handed to a measurement
MaxBackground == 1
  \* largest magnitude of the background handed to a measurement

\* ----------------------------------------------------------------- helpers
Min(a, b) == IF a < b THEN a ELSE b

Max(a, b) == IF a > b THEN a ELSE b

CeilDiv(a, b) == (a + b - 1) \div b

RECURSIVE SeqSum(_)
SeqSum(s) == IF s = <<>> THEN 0 ELSE Head(s) + SeqSum(Tail(s))

Last(s) == s[Len(s)]

\* range(start, stop, step) of Python, as a sequence
RECURSIVE PyRange(_, _, _)
PyRange(start, stop, step) ==
    IF start >= stop THEN <<>>
    ELSE <<start>> \o PyRange(start + step, stop, step)

\* s[a:b] of Python (0-based, b exclusive, b clipped to the length)
PySlice(s, a, b) == SubSeq(s, a + 1, Min(b, Len(s)))

\* -------------------------------------------------- the model's capabilities
\* t.sum(patterns) of one pattern: its observed signal
PatSum(i) == i

\* self.loss(pats, self.forward(*inp)) of one pattern at parameters p
PatLoss(i, p) == i + p

\* what loss.backward() adds to the gradient for one pattern at parameters p
PatGrad(i, p) == 1 + 2 * p

\* what self.regularizer(factor).backward() adds to the gradient
RegGrad(p) == 1 + 2 * p

ChunkLoss(c, p) == SeqSum([k \in 1..Len(c) |-> PatLoss(c[k], p)])

ChunkGrad(c, p) == SeqSum([k \in 1..Len(c) |-> PatGrad(c[k], p)])

\* the parameter update an optimizer makes from the accumulated gradient
OptUpdate(p, g) == (p + g) % 2

\* ------------------------------------------------ the model classes' methods
\* the methods a CDIModel subclass is asked to define; CDIModel's own
\* definition of each only raises NotImplementedError
Abstract == {"from_dataset", "interaction", "forward_propagator",
             "backward_propagator", "measurement", "loss",
             "simulate_to_dataset"}

\* the methods the optimization driver needs
Stages == {"interaction", "forward_propagator", "measurement", "loss"}

CDIModelClass == [name |-> "CDIModel", defines |-> {}]

SimplePtycho ==
    [name |-> "SimplePtycho",
     defines |-> {"from_dataset", "interaction", "forward_propagator",
                  "backward_propagator", "measurement", "loss",
                  "sim_to_dataset", "ePIE"}]

\* a subclass that defines some of the required methods and no other
Subclass(d) == [name |-> "Subclass", defines |-> d]

\* attribute lookup: the class that provides method m of a model of class c
Resolve(c, m) == IF m \in c.defines THEN c.name ELSE "CDIModel"

\* self.m(arg): the call raises in CDIModel's abstract methods and returns
\* the stage's output otherwise
InvokeSilently(c, m, arg) == [ok |-> TRUE, val |-> <<m, arg>>]

Invoke(c, m, arg) ==
    IF Resolve(c, m) = "CDIModel" /\ m \in Abstract
    THEN [ok |-> FALSE, val |-> "NotImplementedError"]
    ELSE [ok |-> TRUE, val |-> <<m, arg>>]

\* the body of CDIModel.forward as the expression it returns
ForwardBodyNoPropagator ==
    [f |-> "measurement", arg |-> [f |-> "interaction", arg |-> [f |-> "args"]]]

ForwardBody ==
    [f |-> "measurement",
     arg |-> [f |-> "forward_propagator",
              arg |-> [f |-> "interaction", arg |-> [f |-> "args"]]]]

\* evaluation of a call expression: the argument first, then the call; an
\* exception ends the evaluation.  calls lists the calls made, each with its
\* argument and its outcome.
RECURSIVE Eval(_, _, _)
Eval(c, e, args) ==
    IF e.f = "args"
    THEN [ok |-> TRUE, val |-> args, calls |-> <<>>]
    ELSE LET a == Eval(c, e.arg, args)
         IN  IF ~a.ok THEN a
             ELSE LET r == Invoke(c, e.f, a.val)
                  IN  [ok |-> r.ok, val |-> r.val,
                       calls |-> Append(a.calls,
                                        [f |-> e.f, arg |-> a.val, out |-> r])]

\* self.forward(*inp) of a model of class c
Forward(c, inp) == Eval(c, ForwardBody, inp)

\* sim_patterns = self.forward(*inp); loss = self.loss(pats, sim_patterns):
\* the exception of the first call that raises, or "none"
StageError(c, inp) ==
    LET fw == Forward(c, inp)
    IN  IF ~fw.ok THEN fw.val
        ELSE LET l == Invoke(c, "loss", fw.val)
             IN  IF l.ok THEN "none" ELSE l.val

\* ------------------------------------------------------- the closure's parts
\* optimizer.zero_grad()
ZeroGradKeep(g) == g

ZeroGrad(g) == 0

\* the chunk lists of the closure: [x[i:i + w] for i in range(0, len(x), w)]
ChunksDropLast(batch, w) ==
    LET st == PyRange(0, Len(batch) - 1, w)
    IN  [k \in 1..Len(st) |-> PySlice(batch, st[k], st[k] + w)]

Chunks(batch, w) ==
    LET st == PyRange(0, Len(batch), w)
    IN  [k \in 1..Len(st) |-> PySlice(batch, st[k], st[k] + w)]

\* the minibatches a DataLoader(dataset, batch_size) delivers for one pass
\* over the sampler's order (drop_last is left at its default, False)
BatchesDropLast(order, bs) ==
    LET st == PyRange(0, Len(order) - bs + 1, bs)
    IN  [k \in 1..Len(st) |-> PySlice(order, st[k], st[k] + bs)]

Batches(order, bs) ==
    LET st == PyRange(0, Len(order), bs)
    IN  [k \in 1..Len(st) |-> PySlice(order, st[k], st[k] + bs)]

\* the orders one pass over the loader may take
Orders(n, shuffle) ==
    IF shuffle THEN Permutations(1..n) ELSE {[k \in 1..n |-> k]}

\* one pass over the loader: the sampler's order of positions, the dataset
\* item at each position, cut into minibatches
Loader(data, bs, order) ==
    Batches([k \in 1..Len(order) |-> data[order[k]]], bs)

\* t.sum(patterns) of one minibatch
BatchSum(b) == SeqSum([k \in 1..Len(b) |-> PatSum(b[k])])

\* loss /= normalization: the quotient is kept as the pair
\* <<numerator, denominator>>
DivideSkipped(loss, norm) == <<loss, 1>>

Divide(loss, norm) == <<loss, norm>>

\* if stop_event is not None and stop_event.is_set(): exit()
\* where the closure goes on after the test
AfterStopCheckIgnored(threaded, is_set) == "compute"

AfterStopCheck(threaded, is_set) ==
    IF threaded /\ is_set THEN "exit" ELSE "compute"

\* if regularization_factor is not None and hasattr(self, 'regularizer')
UsesRegularizerIfDefined(factor_given, has_regularizer) == has_regularizer

UsesRegularizer(factor_given, has_regularizer) ==
    factor_given /\ has_regularizer

\* self.loss_train.append(loss)
AppendLossFront(lt, v) == <<v>> \o lt

AppendLoss(lt, v) == Append(lt, v)

\* for it in range(iterations)
MoreEpochsOffByOne(i, n) == i <= n

MoreEpochs(i, n) == i < n

\* isinstance(res, Exception)
IsExceptionNever(res) == FALSE

IsException(res) == res.kind = "exc"

\* AD_optimize is a generator function: the call returns a generator whose
\* body has not started
GenAfterCallEager == "running"

GenAfterCall == "created"

\* calc.is_alive()
IsAliveNever(al) == FALSE

IsAlive(al) == al # {}

\* res = result_queue.get(): the items left in the queue
QueueAfterPeek(q) == q

QueueAfterGet(q) == Tail(q)

\* calc.join() in the KeyboardInterrupt handler returns once the thread ended
JoinNoWait(al) == TRUE

JoinReturns(al) == al = {}

\* --------------------------------------------------------------- the state
VARIABLES
    loss_train,     \* self.loss_train
    params,         \* the Model Parameters
    grad,           \* the accumulated .grad of the parameters
    attrs,          \* the model: its class (cls) and its optional attributes
                    \* figs, slider, regularizer
    job,            \* the arguments of the current AD_optimize call
    gen,            \* the generator: none, created, running, suspended, done
    mpc,            \* where the calling thread is inside the generator body
    it,             \* the loop variable of `for it in range(iterations)`
    normalization,  \* the normalization of the call
    run,            \* the locals of the run_iteration in progress
    alive,          \* the calculator threads that are alive (by epoch index)
    stop_event,     \* stop_event.is_set()
    result_queue,   \* the items of result_queue
    interrupted,    \* a KeyboardInterrupt was delivered to this request
    h               \* history: what the caller has observed of the call

vars == <<loss_train, params, grad, attrs, job, gen, mpc, it, normalization,
          run, alive, stop_event, result_queue, interrupted, h>>

\* the dataset of n patterns, in dataset order
Range(n) == [k \in 1..n |-> k]

\* subset=None of the wrappers
NoSubset == [kind |-> "none", v |-> <<>>]

NoJob == [iterations |-> 0, thread |-> FALSE, n |-> 1, data |-> Range(1),
          batch_size |-> 1, shuffle |-> FALSE, width |-> 1, regfac |-> FALSE,
          evals |-> 1, via |-> "AD_optimize", subset |-> NoSubset]

IdleRun == [pc |-> "idle", loss |-> 0, N |-> 0, todo |-> <<>>, batch |-> <<>>,
            chunks |-> <<>>, total |-> 0, evals |-> 0, first |-> 0,
            ret |-> <<0, 0>>, err |-> "none"]

\* ------------------------------------------------- the detector geometry
\* the keys store_detector_geometry looks for
GeometryKeys == {"distance", "basis", "corner"}

\* the buffer each key is registered under
BufferName == [distance |-> "det_distance", basis |-> "det_basis",
               corner |-> "det_corner"]

\* a mapping without keys, a module without det_ buffers
NoGeometry == [k \in {} |-> 0]

\* values are numbers in units of the spacing of Python's floats (float64);
\* in these units torch's default dtype, float32, only holds the multiples
\* of F32Step
F32Step == 3

RoundToFloat32(v) == F32Step * ((2 * v + F32Step) \div (2 * F32Step))

PyFloat(v) == [kind |-> "float", dtype |-> "float64", v |-> v]

NdArray(v) == [kind |-> "ndarray", dtype |-> "float64", v |-> v]

\* t.as_tensor(x): a Python float becomes a tensor of the default dtype, a
\* NumPy array a tensor of the array's dtype, a tensor is returned as it is
AsTensor(x) ==
    CASE x.kind = "float" ->
             [kind |-> "tensor", dtype |-> "float32",
              v |-> RoundToFloat32(x.v)]
      [] x.kind = "ndarray" ->
             [kind |-> "tensor", dtype |-> x.dtype, v |-> x.v]
      [] OTHER -> x

\* self's buffers after store_detector_geometry(g)
StoredGeometryReplacing(buffers, g) ==
    [b \in {BufferName[k] : k \in DOMAIN g \cap GeometryKeys} |->
        AsTensor(g[CHOOSE k \in GeometryKeys : BufferName[k] = b])]

StoredGeometry(buffers, g) ==
    [b \in DOMAIN buffers
            \cup {BufferName[k] : k \in DOMAIN g \cap GeometryKeys} |->
        LET k == CHOOSE x \in GeometryKeys : BufferName[x] = b
        IN  IF k \in DOMAIN g THEN AsTensor(g[k]) ELSE buffers[b]]

\* what get_detector_geometry() returns
RetrievedGeometry(buffers) ==
    [k \in {x \in GeometryKeys : BufferName[x] \in DOMAIN buffers} |->
        buffers[BufferName[k]]]

\* the values a caller stores: a float float32 holds, one it does not, an
\* array
GeometryValues == {PyFloat(0), PyFloat(1), NdArray(1)}

\* the mappings a caller stores; wavelength is a key the model ignores
GeometryArgs ==
    {g \in UNION {[D -> GeometryValues] :
                     D \in SUBSET (GeometryKeys \cup {"wavelength"})} :
        "wavelength" \in DOMAIN g => g["wavelength"] = PyFloat(0)}

\* ------------------------------------------------------- the measurements
\* A wavefield is an M x N x 2 stack: rows of pixels <<re, im>>.  Real
\* values (intensities, epsilon, saturation) are held in units of 1/Scale,
\* so that the mean over a 2 x 2 block is exact.
Scale == 4

\* cmath.cabssq(wavefield): the squared magnitude of every pixel
Cabssq(wavefield) ==
    [i \in 1..Len(wavefield) |->
        [j \in 1..Len(wavefield[i]) |->
            Scale * (wavefield[i][j][1] * wavefield[i][j][1]
                     + wavefield[i][j][2] * wavefield[i][j][2])]]

AvgPool2dStrided(output, k) ==
    [i \in 1..(Len(output) \div k) |->
        [j \in 1..(Len(output[1]) \div k) |->
            output[(i - 1) * k + 1][(j - 1) * k + 1]]]

\* avg_pool2d(output.unsqueeze(0), k)[0]: the mean over each whole k x k
\* block
AvgPool2d(output, k) ==
    [i \in 1..(Len(output) \div k) |->
        [j \in 1..(Len(output[1]) \div k) |->
            SeqSum([a \in 1..k |->
                SeqSum([b \in 1..k |->
                    output[(i - 1) * k + a][(j - 1) * k + b]])])
                \div (k * k)]]

\* output[detector_slice] with a pair of slices, rows then columns
Sliced(output, detector_slice) ==
    LET rows == PySlice(output, detector_slice.rows[1],
                        detector_slice.rows[2])
    IN  [i \in 1..Len(rows) |->
            PySlice(rows[i], detector_slice.cols[1], detector_slice.cols[2])]

\* output + epsilon
AddScalar(output, epsilon) ==
    [i \in 1..Len(output) |->
        [j \in 1..Len(output[i]) |-> output[i][j] + epsilon]]

\* t.clamp(output, lo, hi): min(max(x, lo), hi) of every element
Clamp(output, lo, hi) ==
    [i \in 1..Len(output) |->
        [j \in 1..Len(output[i]) |-> Min(Max(output[i][j], lo), hi)]]

\* an optional argument: None, or a value
None == [given |-> FALSE]

\* if saturation is None
SaturationIsFalsy(saturation) == ~saturation.given \/ saturation.v = 0

SaturationIsNone(saturation) == ~saturation.given

\* intensity(wavefield, detector_slice, epsilon, saturation, oversampling)
\* of a single wavefield (wavefield.dim() == 3)
Intensity(wavefield, detector_slice, epsilon, saturation, oversampling) ==
    LET output  == Cabssq(wavefield)
        binned  == IF oversampling # 1
                   THEN AvgPool2d(output, oversampling) ELSE output
        cropped == IF detector_slice.given
                   THEN Sliced(binned, detector_slice) ELSE binned
    IN  IF SaturationIsNone(saturation)
        THEN AddScalar(cropped, epsilon)
        ELSE Clamp(AddScalar(cropped, epsilon), 0, saturation.v)

\* the real and imaginary parts a pixel is built from
Components == {-1, 0, 2}

Pixels == Components \X Components

\* the spatial shapes <<M, N>> of the wavefields
Shapes == {<<1, 1>>, <<1, 2>>, <<2, 2>>}

Wavefields ==
    UNION {[1..sh[1] -> [1..sh[2] -> Pixels]] : sh \in Shapes}

\* epsilon, with one negative value the contract excludes
Epsilons == (-1)..MaxEps

\* saturation: None, or a ceiling, with one negative value
Saturations == {None} \cup {[given |-> TRUE, v |-> x] : x \in (-1)..MaxSat}

\* t.sum(images, dim=0): the elementwise sum over the leading axis
SumDim0(images) ==
    [i \in 1..Len(images[1]) |->
        [j \in 1..Len(images[1][i]) |->
            SeqSum([l \in 1..Len(images) |-> images[l][i][j]])]]

\* incoherent_sum(wavefields, detector_slice, epsilon, saturation,
\* oversampling) of one L x M x N x 2 stack (wavefields.dim() == 4)
IncoherentSumPerComponent(wavefields, detector_slice, epsilon, saturation, oversampling) ==
    SumDim0([l \in 1..Len(wavefields) |->
                Intensity(wavefields[l], detector_slice, epsilon,
                          saturation, oversampling)])

IncoherentSum(wavefields, detector_slice, epsilon, saturation, oversampling) ==
    LET output  == SumDim0([l \in 1..Len(wavefields) |->
                               Cabssq(wavefields[l])])
        binned  == IF oversampling # 1
                   THEN AvgPool2d(output, oversampling) ELSE output
        cropped == IF detector_slice.given
                   THEN Sliced(binned, detector_slice) ELSE binned
    IN  IF SaturationIsNone(saturation)
        THEN AddScalar(cropped, epsilon)
        ELSE Clamp(AddScalar(cropped, epsilon), 0, saturation.v)

\* the pixels the larger inputs are built from: |w|^2 is 0 or 5
FewPixels == {<<0, 0>>, <<-1, 2>>}

\* the shapes <<L, M, N>> of the stacks
StackShapes == {<<1, 1, 2>>, <<1, 2, 2>>, <<2, 1, 2>>, <<2, 2, 2>>}

WavefieldStacks ==
    UNION {[1..sh[1] -> [1..sh[2] -> [1..sh[3] -> FewPixels]]] :
              sh \in StackShapes}

\* a pair of slices np.s_[a:b, c:d], held as rows <<a, b>> and cols <<c, d>>
DetectorSlice(a, b, c, d) ==
    [given |-> TRUE, rows |-> <<a, b>>, cols |-> <<c, d>>]

\* detector_slice: None, the left column, the right column
DetectorSlices == {None, DetectorSlice(0, 2, 0, 1), DetectorSlice(0, 2, 1, 2)}

\* avg_pool2d raises when the image is smaller than one block
Poolable(image, oversampling) ==
    /\ Len(image) >= oversampling
    /\ Len(image[1]) >= oversampling

\* quadratic_background(wavefield, background, detector_slice,
\* measurement=intensity, epsilon, saturation, oversampling) with a scalar
\* background; background ** 2 is held in units of 1/Scale
QuadraticBackgroundClampFirst(wavefield, background, detector_slice, epsilon, saturation, oversampling) ==
    AddScalar(Intensity(wavefield, detector_slice, epsilon, saturation,
                        oversampling),
              Scale * background * background)

QuadraticBackground(wavefield, background, detector_slice, epsilon, saturation, oversampling) ==
    LET output == AddScalar(Intensity(wavefield, detector_slice, epsilon,
                                      None, oversampling),
                            Scale * background * background)
    IN  IF SaturationIsNone(saturation)
        THEN output
        ELSE Clamp(output, 0, saturation.v)

\* ----------------------------------------------------- the polarization
\* A tensor is held as its shape, the values at its index tuples (1-based)
\* and a common denominator: the complex number at idx is at[idx] / den,
\* at[idx] being a pair <<re, im>> of integers.
RECURSIVE Indices(_)
Indices(shape) ==
    IF shape = <<>> THEN {<<>>}
    ELSE {<<i>> \o r : i \in 1..Head(shape), r \in Indices(Tail(shape))}

Dim(T) == Len(T.shape)

InsertAt(s, pos, x) == SubSeq(s, 1, pos) \o <<x>> \o SubSeq(s, pos + 1, Len(s))

RemoveAt(s, pos) == SubSeq(s, 1, pos - 1) \o SubSeq(s, pos + 1, Len(s))

Swap(s, a, b) ==
    [k \in 1..Len(s) |-> IF k = a THEN s[b] ELSE IF k = b THEN s[a] ELSE s[k]]

\* T.unsqueeze(d); T[..., None] is T.unsqueeze(-1) and T[..., None, :, :]
\* is T.unsqueeze(-3)
Unsqueeze(T, d) ==
    LET pos   == IF d < 0 THEN d + Dim(T) + 1 ELSE d
        shape == InsertAt(T.shape, pos, 1)
    IN  [shape |-> shape, den |-> T.den,
         at |-> [idx \in Indices(shape) |-> T.at[RemoveAt(idx, pos + 1)]]]

\* T.squeeze(d) for a negative d: the axis goes if its size is 1
Squeeze(T, d) ==
    LET pos == Dim(T) + d + 1
    IN  IF T.shape[pos] # 1 THEN T
        ELSE [shape |-> RemoveAt(T.shape, pos), den |-> T.den,
              at |-> [idx \in Indices(RemoveAt(T.shape, pos)) |->
                         T.at[InsertAt(idx, pos - 1, 1)]]]

\* T.transpose(d0, d1) for negative d0, d1
Transpose(T, d0, d1) ==
    LET a == Dim(T) + d0 + 1
        b == Dim(T) + d1 + 1
    IN  [shape |-> Swap(T.shape, a, b), den |-> T.den,
         at |-> [idx \in Indices(Swap(T.shape, a, b)) |->
                    T.at[Swap(idx, a, b)]]]

CAdd(x, y) == <<x[1] + y[1], x[2] + y[2]>>

CMul(x, y) == <<x[1] * y[1] - x[2] * y[2], x[1] * y[2] + x[2] * y[1]>>

RECURSIVE CSum(_)
CSum(s) == IF s = <<>> THEN <<0, 0>> ELSE CAdd(Head(s), CSum(Tail(s)))

\* the batch axes of a matmul operand, padded on the left to r axes
BatchShape(T, r) ==
    [k \in 1..(r - (Dim(T) - 2)) |-> 1] \o SubSeq(T.shape, 1, Dim(T) - 2)

\* t.matmul(A, B) is defined: the inner sizes agree and the batch axes
\* broadcast
CanMatMul(A, B) ==
    LET r == Max(Dim(A), Dim(B)) - 2
    IN  /\ Dim(A) >= 2 /\ Dim(B) >= 2
        /\ A.shape[Dim(A)] = B.shape[Dim(B) - 1]
        /\ \A k \in 1..r :
               \/ BatchShape(A, r)[k] = BatchShape(B, r)[k]
               \/ BatchShape(A, r)[k] = 1
               \/ BatchShape(B, r)[k] = 1

\* t.matmul(A, B): the matrix product over the last two axes, the batch
\* axes broadcast
MatMul(A, B) ==
    LET r     == Max(Dim(A), Dim(B)) - 2
        sa    == BatchShape(A, r)
        sb    == BatchShape(B, r)
        batch == [k \in 1..r |-> Max(sa[k], sb[k])]
        shape == batch \o <<A.shape[Dim(A) - 1], B.shape[Dim(B)]>>
        own(idx, T, st) ==
            [k \in 1..(Dim(T) - 2) |->
                IF st[k + r - (Dim(T) - 2)] = 1 THEN 1
                ELSE idx[k + r - (Dim(T) - 2)]]
    IN  [shape |-> shape, den |-> A.den * B.den,
         at |-> [idx \in Indices(shape) |->
                    CSum([k \in 1..A.shape[Dim(A)] |->
                        CMul(A.at[own(idx, A, sa) \o <<idx[r + 1], k>>],
                             B.at[own(idx, B, sb) \o <<k, idx[r + 2]>>])])]]

\* the outcome of a call: a returned tensor, or the exception raised
Returned(T) == [ok |-> TRUE, val |-> T, err |-> "none"]

Raised(e) == [ok |-> FALSE, val |-> <<>>, err |-> e]

\* apply_jones_matrix(probe, jones_matrix, transpose, multiple_modes)
ApplyJonesMatrixNoSqueeze(probe, jones_matrix, transpose, multiple_modes) ==
    IF ~transpose THEN Raised("NotImplementedError")
    ELSE
      LET j1 == IF Dim(jones_matrix) < 4
                THEN Unsqueeze(Unsqueeze(jones_matrix, -1), -1)
                ELSE jones_matrix
          j2 == IF multiple_modes THEN Unsqueeze(j1, -5) ELSE j1
          p1 == Unsqueeze(probe, -3)
          j3 == IF Dim(p1) > Dim(j2) THEN Unsqueeze(j2, 0) ELSE j2
          p2 == IF Dim(p1) > Dim(j2) THEN p1
                ELSE IF Dim(j2) > Dim(p1) THEN Unsqueeze(p1, 0) ELSE p1
          j4 == Transpose(Transpose(j3, -1, -3), -2, -4)
          p3 == Transpose(Transpose(p2, -1, -3), -2, -4)
      IN  IF ~CanMatMul(j4, p3) THEN Raised("RuntimeError")
          ELSE Returned(Transpose(Transpose(MatMul(j4, p3), -2, -4), -1, -3))

ApplyJonesMatrix(probe, jones_matrix, transpose, multiple_modes) ==
    IF ~transpose THEN Raised("NotImplementedError")
    ELSE
      LET j1 == IF Dim(jones_matrix) < 4
                THEN Unsqueeze(Unsqueeze(jones_matrix, -1), -1)
                ELSE jones_matrix
          j2 == IF multiple_modes THEN Unsqueeze(j1, -5) ELSE j1
          p1 == Unsqueeze(probe, -3)
          j3 == IF Dim(p1) > Dim(j2) THEN Unsqueeze(j2, 0) ELSE j2
          p2 == IF Dim(p1) > Dim(j2) THEN p1
                ELSE IF Dim(j2) > Dim(p1) THEN Unsqueeze(p1, 0) ELSE p1
          j4 == Transpose(Transpose(j3, -1, -3), -2, -4)
          p3 == Transpose(Transpose(p2, -1, -3), -2, -4)
      IN  IF ~CanMatMul(j4, p3) THEN Raised("RuntimeError")
          ELSE Returned(Squeeze(Transpose(Transpose(MatMul(j4, p3), -2, -4),
                                          -1, -3), -3))

\* 2 cos^2, 2 sin cos and 2 sin^2 of an angle in degrees that is a multiple
\* of 45: t.cos(p) ** 2, t.sin(p) * t.cos(p), t.sin(p) ** 2 of
\* p = t.deg2rad(pol_angle), over the denominator 2
TwiceCosSq(angle) ==
    CASE angle % 180 = 0 -> 2 [] angle % 180 = 90 -> 0 [] OTHER -> 1

TwiceSinCos(angle) ==
    CASE angle % 180 = 45 -> 1 [] angle % 180 = 135 -> -1 [] OTHER -> 0

TwiceSinSq(angle) ==
    CASE angle % 180 = 0 -> 0 [] angle % 180 = 90 -> 2 [] OTHER -> 1

\* an angle argument: a number (a 0-dim tensor) or a 1-D batch of numbers
Scalar(angle) == [dim |-> 0, v |-> <<angle>>]

Batch(angles) == [dim |-> 1, v |-> angles]

\* generate_linear_polarizer(pol_angle)
GenerateLinearPolarizer(pol_angle) ==
    LET jones_matrices ==
            [shape |-> <<Len(pol_angle.v), 2, 2>>, den |-> 2,
             at |-> [idx \in Indices(<<Len(pol_angle.v), 2, 2>>) |->
                        <<CASE idx[2] = 1 /\ idx[3] = 1 ->
                                   TwiceCosSq(pol_angle.v[idx[1]])
                            [] idx[2] = 2 /\ idx[3] = 2 ->
                                   TwiceSinSq(pol_angle.v[idx[1]])
                            [] OTHER -> TwiceSinCos(pol_angle.v[idx[1]]),
                          0>>]]
    IN  IF pol_angle.dim = 0
        THEN [shape |-> <<2, 2>>, den |-> 2,
              at |-> [idx \in Indices(<<2, 2>>) |->
                         jones_matrices.at[<<1>> \o idx]]]
        ELSE jones_matrices

\* the names defined at the top level of polarization.py
ModuleNames ==
    {"numpy", "t", "math", "sin", "cos", "generate_linear_polarizer",
     "apply_linear_polarizer", "apply_jones_matrix",
     "apply_phase_retardance", "apply_circular_polarizer",
     "apply_quarter_wave_plate", "apply_half_wave_plate"}

\* apply_linear_polarizer(probe, polarizer, multiple_modes, transpose):
\* its body reads the name polarization
ApplyLinearPolarizer(probe, polarizer, multiple_modes, transpose) ==
    IF "polarization" \notin ModuleNames
    THEN Raised("NameError")
    ELSE ApplyJonesMatrix(probe, GenerateLinearPolarizer(polarizer),
                          transpose, multiple_modes)

\* t.tensor([[1, 0], [0, phase_shift]]).to(dtype=t.cfloat)
RetardanceMatrix(phase_shift) ==
    [shape |-> <<2, 2>>, den |-> 1,
     at |-> [idx \in Indices(<<2, 2>>) |->
                CASE idx = <<1, 1>> -> <<1, 0>>
                  [] idx = <<2, 2>> -> <<phase_shift, 0>>
                  [] OTHER -> <<0, 0>>]]

\* apply_phase_retardance(probe, phase_shift)
ApplyPhaseRetardance(probe, phase_shift) ==
    ApplyJonesMatrix(probe, RetardanceMatrix(phase_shift), TRUE, TRUE)

\* the 2 x 2 identity as a Jones matrix
IdentityMatrix ==
    [shape |-> <<2, 2>>, den |-> 1,
     at |-> [idx \in Indices(<<2, 2>>) |->
                IF idx[1] = idx[2] THEN <<1, 0>> ELSE <<0, 0>>]]

\* the complex numbers the fields are built from
FieldValues == {<<0, 0>>, <<1, 0>>, <<1, -1>>}

\* the shapes (N)(P) x 2 x M x L of the fields
FieldShapes ==
    {<<2, 1, 1>>, <<1, 2, 1, 1>>, <<2, 2, 1, 1>>, <<1, 2, 1, 2>>,
     <<1, 1, 2, 1, 1>>}

Fields ==
    UNION {{[shape |-> sh, den |-> 1, at |-> a] :
                a \in [Indices(sh) -> FieldValues]} : sh \in FieldShapes}

\* the angles, in degrees, handed to the polarization functions
Angles == {0, 45, 90, 135}

AngleArgs == {Scalar(a) : a \in Angles} \cup {Batch(<<45>>)}

\* no polarization function called yet
NoPolarization == [fn |-> "none", probe |-> <<>>, angle |-> Scalar(0),
                   multiple_modes |-> TRUE, out |-> Raised("none"),
                   crossed |-> Raised("none")]

\* no measurement made yet
NoMeasurement == [fn |-> "none", wavefield |-> <<>>, detector_slice |-> None,
                  epsilon |-> 0, saturation |-> None, oversampling |-> 1,
                  out |-> <<>>]

NoHistory == [base |-> 0, yields |-> 0, epochs |-> 0,
              end |-> "none", after |-> FALSE, lastYield |-> <<0, 0>>,
              epochBase |-> 0, steps |-> 0, intrLive |-> FALSE,
              stopLive |-> FALSE, workerExc |-> FALSE, read |-> "none",
              evals |-> <<>>, chunkLog |-> <<>>, stepRet |-> <<>>,
              requests |-> 0, failed |-> FALSE, err |-> "none",
              fwd |-> [ok |-> TRUE, val |-> <<>>, calls |-> <<>>],
              direct |-> <<>>, stopSeen |-> FALSE, delivered |-> <<>>,
              reg |-> <<>>,
              given |-> NoGeometry, lastKeys |-> {}, nstore |-> 0,
              got |-> [called |-> FALSE, val |-> NoGeometry],
              meas |-> NoMeasurement, pol |-> NoPolarization]

\* the calls of AD_optimize: n is len(data_loader.dataset) and data the
\* patterns that dataset holds
Jobs ==
    {[iterations |-> a.iterations, thread |-> a.thread, n |-> a.n,
      data |-> Range(a.n), batch_size |-> a.batch_size, shuffle |-> FALSE,
      width |-> 1, regfac |-> TRUE, evals |-> a.evals,
      via |-> "AD_optimize", subset |-> NoSubset] :
     a \in [iterations : 0..MaxRecord, thread : BOOLEAN, n : 1..MaxPat,
            batch_size : 1..MaxPat, evals : 1..MaxEvals]}

\* a model of class c right after construction
NewModel(c) ==
    /\ loss_train = <<>>
    /\ params = 0
    /\ grad = 0
    /\ attrs = [cls |-> c, figs |-> FALSE, slider |-> FALSE,
                regularizer |-> TRUE, buffers |-> NoGeometry]
    /\ job = NoJob
    /\ gen = "none"
    /\ mpc = "none"
    /\ it = 0
    /\ normalization = 0
    /\ run = IdleRun
    /\ alive = {}
    /\ stop_event = FALSE
    /\ result_queue = <<>>
    /\ interrupted = FALSE
    /\ h = NoHistory

Init == NewModel(SimplePtycho)


\* ------------------------------------------------------ the caller's actions
\* model.AD_optimize(iterations, data_loader, optimizer, ...): calling the
\* generator function only creates the generator; no line of its body runs.
StartCall(JobSet) ==
    /\ gen \in {"none", "done"}
    /\ \E j \in JobSet :
          /\ j.batch_size <= j.n
          /\ Len(loss_train) + j.iterations <= MaxRecord
          \* a later call is made with the same data loader and width
          /\ job # NoJob => /\ j.n = job.n
                             /\ j.data = job.data
                             /\ j.batch_size = job.batch_size
                             /\ j.width = job.width
          /\ job' = j
    /\ gen' = GenAfterCall
    /\ mpc' = IF GenAfterCall = "created" THEN "none" ELSE "norm"
    /\ it' = 0
    /\ normalization' = 0
    /\ run' = IdleRun
    /\ stop_event' = FALSE
    /\ result_queue' = <<>>
    /\ interrupted' = FALSE
    /\ h' = [NoHistory EXCEPT !.base = Len(loss_train),
                              !.epochBase = Len(loss_train)]
    /\ UNCHANGED <<loss_train, params, grad, attrs, alive>>

\* next(generator) on a generator that has not finished: a request for the
\* next result
Request ==
    /\ gen \in {"created", "suspended"}
    /\ gen' = "running"
    /\ mpc' = IF gen = "created" THEN "norm" ELSE "loop"
    /\ it' = IF gen = "created" THEN 0 ELSE it + 1
    /\ interrupted' = FALSE
    /\ h' = [h EXCEPT !.workerExc = FALSE, !.intrLive = FALSE,
                      !.stopLive = FALSE, !.requests = h.requests + 1]
    /\ UNCHANGED <<loss_train, params, grad, attrs, job, normalization, run,
                   alive, stop_event, result_queue>>

\* next(generator) on a finished generator raises StopIteration and runs nothing
RequestExhausted ==
    /\ gen = "done"
    /\ ~h.after
    /\ h' = [h EXCEPT !.after = TRUE]
    /\ UNCHANGED <<loss_train, params, grad, attrs, job, gen, mpc, it,
                   normalization, run, alive, stop_event, result_queue,
                   interrupted>>

\* generator.close(), or dropping the last reference: GeneratorExit is raised
\* at the yield (or the body never starts) and nothing in the body catches it
Abandon ==
    /\ gen \in {"created", "suspended"}
    /\ gen' = "done"
    /\ mpc' = "none"
    /\ h' = [h EXCEPT !.end = "closed"]
    /\ UNCHANGED <<loss_train, params, grad, attrs, job, it, normalization,
                   run, alive, stop_event, result_queue, interrupted>>

\* model.inspect(): creates self.figs
Inspect ==
    /\ gen # "running"
    /\ ~attrs.figs
    /\ attrs' = [attrs EXCEPT !.figs = TRUE]
    /\ UNCHANGED <<loss_train, params, grad, job, gen, mpc, it, normalization,
                   run, alive, stop_event, result_queue, interrupted, h>>

\* model.compare(dataset): connects the slider and key callbacks, whose
\* update(idx) calls self.forward, to the GUI event loop
Compare ==
    /\ gen # "running"
    /\ ~attrs.slider
    /\ attrs' = [attrs EXCEPT !.slider = TRUE]
    /\ UNCHANGED <<loss_train, params, grad, job, gen, mpc, it, normalization,
                   run, alive, stop_event, result_queue, interrupted, h>>

\* ------------------------------------------- the generator body, main thread
\* the body up to the loop: the normalization pass over the loader, the
\* definition of run_iteration and, when threading, the queue and the event
Prologue ==
    /\ gen = "running"
    /\ mpc = "norm"
    /\ \E order \in Orders(job.n, job.shuffle) :
          LET bs == Loader(job.data, job.batch_size, order)
          IN  normalization' = SeqSum([k \in 1..Len(bs) |-> BatchSum(bs[k])])
    /\ result_queue' = <<>>
    /\ stop_event' = FALSE
    /\ mpc' = "loop"
    /\ UNCHANGED <<loss_train, params, grad, attrs, job, gen, it, run, alive,
                   interrupted, h>>

FreshRun == [IdleRun EXCEPT !.pc = "begin"]

\* the head of `for it in range(iterations)`: the loop ends, or the epoch is
\* started, on a new calculator thread or on the calling thread
LoopEnd ==
    /\ gen = "running"
    /\ mpc = "loop"
    /\ ~MoreEpochs(it, job.iterations)
    /\ gen' = "done"
    /\ mpc' = "none"
    /\ h' = [h EXCEPT !.end = "exhausted"]
    /\ UNCHANGED <<loss_train, params, grad, attrs, job, it, normalization,
                   run, alive, stop_event, result_queue, interrupted>>

StartThread ==
    /\ gen = "running"
    /\ mpc = "loop"
    /\ MoreEpochs(it, job.iterations)
    /\ job.thread
    /\ alive' = alive \cup {it}
    /\ run' = FreshRun
    /\ mpc' = "wait"
    /\ h' = [h EXCEPT !.epochs = h.epochs + 1, !.epochBase = Len(loss_train),
                      !.steps = 0, !.stepRet = <<>>, !.delivered = <<>>]
    /\ UNCHANGED <<loss_train, params, grad, attrs, job, gen, it,
                   normalization, stop_event, result_queue, interrupted>>

RunInline ==
    /\ gen = "running"
    /\ mpc = "loop"
    /\ MoreEpochs(it, job.iterations)
    /\ ~job.thread
    /\ run' = FreshRun
    /\ mpc' = "run"
    /\ h' = [h EXCEPT !.epochs = h.epochs + 1, !.epochBase = Len(loss_train),
                      !.steps = 0, !.stepRet = <<>>, !.delivered = <<>>]
    /\ UNCHANGED <<loss_train, params, grad, attrs, job, gen, it,
                   normalization, alive, stop_event, result_queue,
                   interrupted>>

\* run_iteration has not yet reached its end (or raised)
EpochComputing ==
    run.pc \in {"begin", "batch", "closure", "check", "compute", "reg", "opt"}

\* a closure evaluation or an optimizer step is executing
InFlight == run.pc \in {"closure", "check", "compute", "reg", "opt"}

\* one 10 ms slice of self.figs[0].canvas.start_event_loop while the thread
\* is alive: the GUI dispatches a pending slider or key event to compare's
\* update(idx), which evaluates self.forward on the calling thread
EventLoopSlice ==
    /\ gen = "running"
    /\ mpc = "wait"
    /\ IsAlive(alive)
    /\ attrs.figs
    /\ attrs.slider
    /\ h' = [h EXCEPT !.read = IF InFlight THEN "inflight" ELSE "between"]
    /\ UNCHANGED <<loss_train, params, grad, attrs, job, gen, mpc, it,
                   normalization, run, alive, stop_event, result_queue,
                   interrupted>>

\* `while calc.is_alive()` ends (calc.join() returned, or the last slice did)
WaitDone ==
    /\ gen = "running"
    /\ mpc = "wait"
    /\ ~IsAlive(alive)
    /\ mpc' = "get"
    /\ UNCHANGED <<loss_train, params, grad, attrs, job, gen, it,
                   normalization, run, alive, stop_event, result_queue,
                   interrupted, h>>

\* res = result_queue.get(), then raise res or yield res
GetResult ==
    /\ gen = "running"
    /\ mpc = "get"
    /\ result_queue # <<>>
    /\ result_queue' = QueueAfterGet(result_queue)
    /\ mpc' = "none"
    /\ IF IsException(Head(result_queue))
       THEN /\ gen' = "done"
            /\ h' = [h EXCEPT !.end = "Exception",
                              !.err = Head(result_queue).err]
       ELSE /\ gen' = "suspended"
            /\ h' = [h EXCEPT !.yields = h.yields + 1,
                              !.lastYield = Head(result_queue).val,
                              !.end = "value"]
    /\ UNCHANGED <<loss_train, params, grad, attrs, job, it, normalization,
                   run, alive, stop_event, interrupted>>

\* yield run_iteration(): the epoch ran on the calling thread
YieldInline ==
    /\ gen = "running"
    /\ mpc = "run"
    /\ run.pc \in {"ret", "exc"}
    /\ mpc' = "none"
    /\ run' = IdleRun
    /\ IF run.pc = "exc"
       THEN /\ gen' = "done"
            /\ h' = [h EXCEPT !.end = "Exception", !.err = run.err]
       ELSE /\ gen' = "suspended"
            /\ h' = [h EXCEPT !.yields = h.yields + 1, !.lastYield = run.ret,
                              !.end = "value"]
    /\ UNCHANGED <<loss_train, params, grad, attrs, job, it, normalization,
                   alive, stop_event, result_queue, interrupted>>

\* a KeyboardInterrupt reaches the calling thread while it runs the body:
\* inside the try it is caught by the handler, anywhere else it propagates
\* (an exception already unwinding run_iteration on the calling thread
\* reaches the caller first)
Interrupt ==
    /\ gen = "running"
    /\ ~interrupted
    /\ ~(mpc = "run" /\ run.pc = "exc")
    /\ interrupted' = TRUE
    /\ IF mpc = "wait"
       THEN /\ mpc' = "handler"
            /\ h' = [h EXCEPT !.intrLive = IsAlive(alive)]
            /\ UNCHANGED <<gen, run>>
       ELSE /\ mpc' = "none"
            /\ gen' = "done"
            /\ run' = IF mpc = "run" THEN IdleRun ELSE run
            /\ h' = [h EXCEPT !.end = "KeyboardInterrupt"]
    /\ UNCHANGED <<loss_train, params, grad, attrs, job, it, normalization,
                   alive, stop_event, result_queue>>

\* except KeyboardInterrupt: stop_event.set()
HandlerSet ==
    /\ gen = "running"
    /\ mpc = "handler"
    /\ stop_event' = TRUE
    /\ mpc' = "hjoin"
    /\ h' = [h EXCEPT !.stopLive = IsAlive(alive) /\ EpochComputing]
    /\ UNCHANGED <<loss_train, params, grad, attrs, job, gen, it,
                   normalization, run, alive, result_queue, interrupted>>

\* calc.join(); raise e
HandlerJoin ==
    /\ gen = "running"
    /\ mpc = "hjoin"
    /\ JoinReturns(alive)
    /\ gen' = "done"
    /\ mpc' = "none"
    /\ h' = [h EXCEPT !.end = "KeyboardInterrupt"]
    /\ UNCHANGED <<loss_train, params, grad, attrs, job, it, normalization,
                   run, alive, stop_event, result_queue, interrupted>>


\* ------------------------------------------------------------ run_iteration
\* run_iteration is executing: on the calculator thread, or on the calling
\* thread inside `yield run_iteration()`
Running ==
    \/ job.thread /\ alive # {}
    \/ ~job.thread /\ gen = "running" /\ mpc = "run"

\* loss = 0; N = 0; iter(data_loader) draws the order of this pass
RunBegin ==
    /\ Running
    /\ run.pc = "begin"
    /\ \E order \in Orders(job.n, job.shuffle) :
           run' = [run EXCEPT !.pc = "batch", !.loss = 0, !.N = 0,
                              !.todo = Loader(job.data, job.batch_size,
                                              order)]
    /\ UNCHANGED <<loss_train, params, grad, attrs, job, gen, mpc, it,
                   normalization, alive, stop_event, result_queue,
                   interrupted, h>>

\* for inputs, patterns in data_loader: N += 1, then optimizer.step(closure)
\* is entered; it starts by evaluating the closure
NextBatch ==
    /\ Running
    /\ run.pc = "batch"
    /\ run.todo # <<>>
    /\ run' = [run EXCEPT !.pc = "closure", !.N = run.N + 1,
                          !.batch = Head(run.todo), !.todo = Tail(run.todo),
                          !.evals = 0]
    /\ h' = [h EXCEPT !.steps = h.steps + 1,
                      !.delivered = h.delivered \o Head(run.todo)]
    /\ UNCHANGED <<loss_train, params, grad, attrs, job, gen, mpc, it,
                   normalization, alive, stop_event, result_queue,
                   interrupted>>

\* closure(): optimizer.zero_grad(), the chunk lists, total_loss = 0
ClosureBegin ==
    /\ Running
    /\ run.pc = "closure"
    /\ grad' = ZeroGrad(grad)
    /\ LET cs == Chunks(run.batch, job.width)
       IN  run' = [run EXCEPT !.pc = IF cs = <<>> THEN "reg" ELSE "check",
                              !.chunks = cs, !.total = 0,
                              !.evals = run.evals + 1]
    /\ h' = [h EXCEPT !.chunkLog = <<>>, !.reg = <<>>]
    /\ UNCHANGED <<loss_train, params, attrs, job, gen, mpc, it,
                   normalization, alive, stop_event, result_queue,
                   interrupted>>

\* if stop_event is not None and stop_event.is_set(): exit()
\* SystemExit is no Exception: target() does not catch it, the thread ends
\* and nothing is put into the queue
ChunkCheck ==
    /\ Running
    /\ run.pc = "check"
    /\ run' = [run EXCEPT !.pc = AfterStopCheck(job.thread, stop_event)]
    /\ h' = [h EXCEPT !.stopSeen = job.thread /\ stop_event]
    /\ UNCHANGED <<loss_train, params, grad, attrs, job, gen, mpc, it,
                   normalization, alive, stop_event, result_queue,
                   interrupted>>

\* sim_patterns = self.forward(*inp); loss = self.loss(pats, sim_patterns);
\* loss.backward(); total_loss += loss.detach()  -- or a stage is not
\* implemented, or a stage of a complete model raises some other Exception
ChunkCompute ==
    /\ Running
    /\ run.pc = "compute"
    /\ \E fails \in BOOLEAN :
        LET inp  == Head(run.chunks)
            fw   == Forward(attrs.cls, inp)
            nie  == StageError(attrs.cls, inp)
        IN IF fails \/ nie # "none"
           THEN /\ run' = [run EXCEPT !.pc = "exc",
                                      !.err = IF nie # "none" THEN nie
                                              ELSE "RuntimeError"]
                /\ grad' = grad
                /\ h' = [h EXCEPT !.failed = TRUE,
                                  !.fwd = IF nie # "none" THEN fw
                                          ELSE h.fwd]
           ELSE /\ grad' = grad + ChunkGrad(Head(run.chunks), params)
                /\ h' = [h EXCEPT !.chunkLog = Append(@, Head(run.chunks)),
                                  !.fwd = fw]
                /\ run' = [run EXCEPT
                               !.total = run.total
                                         + ChunkLoss(Head(run.chunks), params),
                               !.chunks = Tail(run.chunks),
                               !.pc = IF Tail(run.chunks) = <<>>
                                      THEN "reg" ELSE "check"]
    /\ UNCHANGED <<loss_train, params, attrs, job, gen, mpc, it,
                   normalization, alive, stop_event, result_queue,
                   interrupted>>

\* if regularization_factor is not None and hasattr(self, 'regularizer'):
\*     self.regularizer(regularization_factor).backward()
\* return total_loss
ClosureEnd ==
    /\ Running
    /\ run.pc = "reg"
    /\ grad' = IF UsesRegularizer(job.regfac, attrs.regularizer)
               THEN grad + RegGrad(params) ELSE grad
    /\ run' = [run EXCEPT !.pc = "opt",
                          !.first = IF run.evals = 1 THEN run.total
                                    ELSE run.first]
    /\ h' = [h EXCEPT !.evals = Append(@, [params |-> params, grad |-> grad',
                                           total |-> run.total]),
                      !.reg = IF UsesRegularizer(job.regfac, attrs.regularizer)
                              THEN Append(@, Len(h.chunkLog)) ELSE @]
    /\ UNCHANGED <<loss_train, params, attrs, job, gen, mpc, it,
                   normalization, alive, stop_event, result_queue,
                   interrupted>>

\* inside optimizer.step: an optimizer that evaluates the closure several
\* times per step (quasi-Newton) evaluates it again, at the same or at
\* updated parameters
OptReEval ==
    /\ Running
    /\ run.pc = "opt"
    /\ run.evals < job.evals
    /\ \E moved \in BOOLEAN :
           params' = IF moved THEN OptUpdate(params, grad) ELSE params
    /\ run' = [run EXCEPT !.pc = "closure"]
    /\ UNCHANGED <<loss_train, grad, attrs, job, gen, mpc, it, normalization,
                   alive, stop_event, result_queue, interrupted, h>>

\* optimizer.step updates the parameters from the gradient and returns the
\* loss of its first closure evaluation: loss += optimizer.step(closure)
OptFinish ==
    /\ Running
    /\ run.pc = "opt"
    /\ run.evals >= job.evals
    /\ params' = OptUpdate(params, grad)
    /\ run' = [run EXCEPT !.pc = "batch", !.loss = run.loss + run.first]
    /\ h' = [h EXCEPT !.evals = <<>>, !.chunkLog = <<>>,
                      !.stepRet = Append(@, run.first)]
    /\ UNCHANGED <<loss_train, grad, attrs, job, gen, mpc, it, normalization,
                   alive, stop_event, result_queue, interrupted>>

\* loss /= normalization; scheduler.step(loss); self.loss_train.append(loss);
\* return loss.  The quotient is kept as the pair <<numerator, denominator>>.
Finish ==
    /\ Running
    /\ run.pc = "batch"
    /\ run.todo = <<>>
    /\ LET loss == Divide(run.loss, normalization)
       IN  /\ loss_train' = AppendLoss(loss_train, loss)
           /\ run' = [run EXCEPT !.pc = "ret", !.ret = loss]
    /\ UNCHANGED <<params, grad, attrs, job, gen, mpc, it, normalization,
                   alive, stop_event, result_queue, interrupted, h>>

\* target(): result_queue.put(run_iteration(stop_event)), or, on an
\* Exception, result_queue.put(e)
WorkerPut ==
    /\ job.thread
    /\ alive # {}
    /\ run.pc \in {"ret", "exc"}
    /\ result_queue' = Append(result_queue,
                              [kind |-> IF run.pc = "exc" THEN "exc" ELSE "val",
                               val |-> run.ret, err |-> run.err,
                               epoch |-> it])
    /\ run' = [run EXCEPT !.pc = "exit"]
    /\ h' = [h EXCEPT !.workerExc = @ \/ run.pc = "exc"]
    /\ UNCHANGED <<loss_train, params, grad, attrs, job, gen, mpc, it,
                   normalization, alive, stop_event, interrupted>>

\* target() returned, or SystemExit unwound it: the thread is no longer alive
WorkerExit ==
    /\ job.thread
    /\ alive # {}
    /\ run.pc = "exit"
    /\ alive' = {}
    /\ run' = IdleRun
    /\ UNCHANGED <<loss_train, params, grad, attrs, job, gen, mpc, it,
                   normalization, stop_event, result_queue, interrupted, h>>

\* ------------------------------------------------------- the specification
\* the steps of a call that no KeyboardInterrupt reaches
Undisturbed ==
    \/ Request
    \/ RequestExhausted
    \/ Abandon
    \/ Prologue
    \/ LoopEnd
    \/ StartThread
    \/ RunInline
    \/ WaitDone
    \/ GetResult
    \/ YieldInline
    \/ RunBegin
    \/ NextBatch
    \/ ClosureBegin
    \/ ChunkCheck
    \/ ChunkCompute
    \/ ClosureEnd
    \/ OptReEval
    \/ OptFinish
    \/ Finish
    \/ WorkerPut
    \/ WorkerExit

Driver ==
    \/ Undisturbed
    \/ Interrupt
    \/ HandlerSet
    \/ HandlerJoin

Next ==
    \/ StartCall(Jobs)
    \/ Driver

Spec == Init /\ [][Next]_vars

\* ------------------------------ the driver on a deterministic computation
\* A deterministic model raises on the same inputs at the same parameters
\* every time (bad: a pattern and parameters, pattern 0 for a model that
\* never raises), and a deterministic optimizer makes the same moves between
\* the closure evaluations of a step every time (moves).
Behaviours ==
    [bad : {[pat |-> 0, p |-> 0]} \cup [pat : 1..MaxPat, p : {0, 1}],
     moves : BOOLEAN]

InitEquiv ==
    \E b \in Behaviours :
        /\ loss_train = <<>>
        /\ params = 0
        /\ grad = 0
        /\ attrs = [cls |-> SimplePtycho, figs |-> FALSE, slider |-> FALSE,
                    regularizer |-> TRUE, buffers |-> NoGeometry,
                    bad |-> b.bad, moves |-> b.moves]
        /\ job = NoJob
        /\ gen = "none"
        /\ mpc = "none"
        /\ it = 0
        /\ normalization = 0
        /\ run = IdleRun
        /\ alive = {}
        /\ stop_event = FALSE
        /\ result_queue = <<>>
        /\ interrupted = FALSE
        /\ h = NoHistory

\* self.forward(*inp) or self.loss raises on chunk c at parameters p
ModelFails(a, c, p) ==
    \E k \in 1..Len(c) : c[k] = a.bad.pat /\ p = a.bad.p

\* the steps in which the model and the optimizer behave as a says
Deterministic ==
    /\ run.pc = "compute" =>
           (run'.pc = "exc" <=> ModelFails(attrs, Head(run.chunks), params))
    /\ (run.pc = "opt" /\ run'.pc = "closure") =>
           params' = IF attrs.moves THEN OptUpdate(params, grad) ELSE params

\* the chunk loop of closure(): total_loss and the gradient after the chunks
\* cs at parameters p, or the exception that ends the loop
RECURSIVE ClosureOnChunks(_, _, _, _)
ClosureOnChunks(a, cs, p, acc) ==
    IF cs = <<>> THEN acc
    ELSE IF ModelFails(a, Head(cs), p) THEN [acc EXCEPT !.ok = FALSE]
    ELSE ClosureOnChunks(a, Tail(cs), p,
             [acc EXCEPT !.total = @ + ChunkLoss(Head(cs), p),
                         !.grad = @ + ChunkGrad(Head(cs), p)])

\* closure() on one minibatch at parameters p and gradient g
Closure(a, j, batch, p, g) ==
    LET r == ClosureOnChunks(a, Chunks(batch, j.width), p,
                 [ok |-> TRUE, total |-> 0, grad |-> ZeroGrad(g)])
    IN  IF r.ok /\ UsesRegularizer(j.regfac, a.regularizer)
        THEN [r EXCEPT !.grad = @ + RegGrad(p)]
        ELSE r

\* optimizer.step(closure) after n closure evaluations, the first of which
\* returned first: the parameters and gradient it leaves and what it returns
RECURSIVE OptimizerStep(_, _, _, _, _, _, _)
OptimizerStep(a, j, batch, p, g, n, first) ==
    LET c == Closure(a, j, batch, p, g)
        f == IF n = 0 THEN c.total ELSE first
    IN  IF ~c.ok
        THEN [ok |-> FALSE, params |-> p, grad |-> c.grad, ret |-> 0]
        ELSE IF n + 1 >= j.evals
        THEN [ok |-> TRUE, params |-> OptUpdate(p, c.grad), grad |-> c.grad,
              ret |-> f]
        ELSE OptimizerStep(a, j, batch,
                 IF a.moves THEN OptUpdate(p, c.grad) ELSE p, c.grad,
                 n + 1, f)

\* for inputs, patterns in data_loader: loss += optimizer.step(closure)
RECURSIVE RunBatches(_, _, _, _, _, _)
RunBatches(a, j, todo, p, g, loss) ==
    IF todo = <<>>
    THEN [ok |-> TRUE, params |-> p, grad |-> g, loss |-> loss]
    ELSE LET s == OptimizerStep(a, j, Head(todo), p, g, 0, 0)
         IN  IF ~s.ok
             THEN [ok |-> FALSE, params |-> s.params, grad |-> s.grad,
                   loss |-> loss]
             ELSE RunBatches(a, j, Tail(todo), s.params, s.grad,
                             loss + s.ret)

\* the minibatches of one pass over the unshuffled loader
Pass(j) == Loader(j.data, j.batch_size, Range(j.n))

\* the normalization pass before the loop
NormalizationOf(j) ==
    SeqSum([k \in 1..Len(Pass(j)) |-> BatchSum(Pass(j)[k])])

\* run_iteration() as one computation from parameters p and gradient g:
\* the loss it returns and appends, and the parameters it leaves
RunIterationFrom(a, j, p, g) ==
    LET r == RunBatches(a, j, Pass(j), p, g, 0)
    IN  [ok |-> r.ok, params |-> r.params, grad |-> r.grad,
         loss |-> Divide(r.loss, NormalizationOf(j)),
         err |-> IF r.ok THEN "none" ELSE "RuntimeError"]

\* for it in range(iterations): yield run_iteration(), as one computation:
\* the Loss Record, the parameters and the gradient after k epochs from
\* parameters p and gradient g, or after the first epoch that raised
RECURSIVE EpochsFrom(_, _, _, _, _)
EpochsFrom(a, j, p, g, k) ==
    IF k = 0
    THEN [ok |-> TRUE, params |-> p, grad |-> g, losses |-> <<>>,
          err |-> "none"]
    ELSE LET prev == EpochsFrom(a, j, p, g, k - 1)
             e == RunIterationFrom(a, j, prev.params, prev.grad)
         IN  IF ~prev.ok THEN prev
             ELSE [ok |-> e.ok, params |-> e.params, grad |-> e.grad,
                   losses |-> IF e.ok THEN Append(prev.losses, e.loss)
                              ELSE prev.losses,
                   err |-> e.err]

\* one call on a fresh model, which no KeyboardInterrupt reaches
NextEquiv ==
    \/ gen = "none" /\ StartCall(Jobs)
    \/ Undisturbed /\ Deterministic

SpecEquiv == InitEquiv /\ [][NextEquiv]_vars

\* ------------------------------- the driver on stages that end the thread
\* self.forward, self.loss or loss.backward raises a BaseException that is
\* no Exception (SystemExit, as exit() does): on the calculator thread
\* target() does not catch it, the thread ends and nothing is put; on the
\* calling thread it propagates out of run_iteration
ChunkAbort ==
    /\ Running
    /\ run.pc = "compute"
    /\ run' = [run EXCEPT !.pc = IF job.thread THEN "exit" ELSE "exc",
                          !.err = "SystemExit"]
    /\ h' = [h EXCEPT !.failed = TRUE]
    /\ UNCHANGED <<loss_train, params, grad, attrs, job, gen, mpc, it,
                   normalization, alive, stop_event, result_queue,
                   interrupted>>

\* the steps of the calling thread inside the generator body
GeneratorBody ==
    \/ Prologue
    \/ LoopEnd
    \/ StartThread
    \/ RunInline
    \/ WaitDone
    \/ GetResult
    \/ YieldInline
    \/ HandlerSet
    \/ HandlerJoin

\* the steps of run_iteration and of target()
RunIteration ==
    \/ RunBegin
    \/ NextBatch
    \/ ClosureBegin
    \/ ChunkCheck
    \/ ChunkCompute
    \/ ChunkAbort
    \/ ClosureEnd
    \/ OptReEval
    \/ OptFinish
    \/ Finish
    \/ WorkerPut
    \/ WorkerExit

NextAbort ==
    \/ StartCall(Jobs)
    \/ Driver
    \/ ChunkAbort

\* both threads are scheduled: a thread that can take a step takes it, and
\* every call into the model or the optimizer returns or raises
SpecAbort ==
    /\ Init
    /\ [][NextAbort]_vars
    /\ WF_vars(GeneratorBody)
    /\ WF_vars(RunIteration)


\* -------------------------------------------- the driver with the inspection GUI
\* calls of the specification with the inspection figures
GuiJobs ==
    [iterations : 0..1, thread : BOOLEAN, n : {1}, data : {Range(1)},
     batch_size : {1},
     shuffle : {FALSE}, width : {1}, regfac : {TRUE}, evals : 1..MaxEvals,
     via : {"AD_optimize"}, subset : {NoSubset}]

NextGui ==
    \/ StartCall(GuiJobs)
    \/ Driver
    \/ Inspect
    \/ Compare
    \/ EventLoopSlice

SpecGui == Init /\ [][NextGui]_vars

\* ------------------------------------- the driver on models of any class
\* CDIModel itself, SimplePtycho, and the subclasses that define any part of
\* the required methods
ModelClasses ==
    {CDIModelClass, SimplePtycho} \cup {Subclass(d) : d \in SUBSET Stages}

\* the calls made on them: the stages are called per chunk, so one pattern
\* per epoch shows every case
StageJobs == {j \in Jobs : j.n = 1}

InitStages == \E c \in ModelClasses : NewModel(c)

\* the caller calls one method of the fresh model directly
CallMethod ==
    /\ gen = "none"
    /\ h.direct = <<>>
    /\ \E m \in Abstract \cup {"forward"} :
          h' = [h EXCEPT !.direct =
                   <<m, IF m = "forward"
                        THEN [ok |-> Forward(attrs.cls, "x").ok]
                        ELSE [ok |-> Invoke(attrs.cls, m, "x").ok]>>]
    /\ UNCHANGED <<loss_train, params, grad, attrs, job, gen, mpc, it,
                   normalization, run, alive, stop_event, result_queue,
                   interrupted>>

NextStages ==
    \/ StartCall(StageJobs)
    \/ Driver
    \/ CallMethod

SpecStages == InitStages /\ [][NextStages]_vars

\* ------------------------------------------ storing the detector geometry
\* a CDIModel that has stored no geometry
InitGeom == NewModel(CDIModelClass)

\* model.store_detector_geometry(g); h keeps, for each recognised key, the
\* value passed last, the keys of the last mapping and whether this was the
\* first call
StoreGeometry ==
    /\ gen = "none"
    /\ \E g \in GeometryArgs :
          /\ attrs' = [attrs EXCEPT !.buffers = StoredGeometry(@, g)]
          /\ h' = [h EXCEPT
                     !.given = [k \in DOMAIN @
                                      \cup (DOMAIN g \cap GeometryKeys) |->
                                   IF k \in DOMAIN g THEN g[k] ELSE @[k]],
                     !.lastKeys = DOMAIN g,
                     !.nstore = Min(@ + 1, 2),
                     !.got = [called |-> FALSE, val |-> NoGeometry]]
    /\ UNCHANGED <<loss_train, params, grad, job, gen, mpc, it,
                   normalization, run, alive, stop_event, result_queue,
                   interrupted>>

\* model.get_detector_geometry()
GetGeometry ==
    /\ gen = "none"
    /\ ~h.got.called
    /\ h' = [h EXCEPT !.got = [called |-> TRUE,
                               val |-> RetrievedGeometry(attrs.buffers)]]
    /\ UNCHANGED <<loss_train, params, grad, attrs, job, gen, mpc, it,
                   normalization, run, alive, stop_event, result_queue,
                   interrupted>>

NextGeom ==
    \/ StoreGeometry
    \/ GetGeometry

SpecGeom == InitGeom /\ [][NextGeom]_vars

\* ------------------------------------------------- taking a measurement
\* sim = intensity(wavefield, epsilon=..., saturation=...); h keeps the
\* arguments and the result
CallIntensity ==
    /\ gen = "none"
    /\ h.meas.fn = "none"
    /\ \E wavefield \in Wavefields, epsilon \in Epsilons,
          saturation \in Saturations :
          h' = [h EXCEPT !.meas =
                   [fn |-> "intensity", wavefield |-> wavefield,
                    detector_slice |-> None, epsilon |-> epsilon,
                    saturation |-> saturation, oversampling |-> 1,
                    out |-> Intensity(wavefield, None, epsilon,
                                      saturation, 1)]]
    /\ UNCHANGED <<loss_train, params, grad, attrs, job, gen, mpc, it,
                   normalization, run, alive, stop_event, result_queue,
                   interrupted>>

NextMeas == CallIntensity

SpecMeas == Init /\ [][NextMeas]_vars

\* a caller that holds the arguments of a measurement and has not made it
Measuring(args) ==
    /\ loss_train = <<>>
    /\ params = 0
    /\ grad = 0
    /\ attrs = [cls |-> SimplePtycho, figs |-> FALSE, slider |-> FALSE,
                regularizer |-> TRUE, buffers |-> NoGeometry]
    /\ job = NoJob
    /\ gen = "none"
    /\ mpc = "none"
    /\ it = 0
    /\ normalization = 0
    /\ run = IdleRun
    /\ alive = {}
    /\ stop_event = FALSE
    /\ result_queue = <<>>
    /\ interrupted = FALSE
    /\ h = [NoHistory EXCEPT !.meas = args]

InitSum ==
    \E wavefields \in WavefieldStacks, detector_slice \in DetectorSlices,
       epsilon \in 0..MaxEps, saturation \in Saturations,
       oversampling \in {1, 2} :
       /\ Poolable(wavefields[1], oversampling)
       /\ Measuring([fn |-> "none", wavefield |-> wavefields,
                     detector_slice |-> detector_slice, epsilon |-> epsilon,
                     saturation |-> saturation, oversampling |-> oversampling,
                     out |-> <<>>])

\* sim = incoherent_sum(wavefields, detector_slice, epsilon, saturation,
\* oversampling)
CallIncoherentSum ==
    /\ gen = "none"
    /\ h.meas.fn = "none"
    /\ h.meas.wavefield # <<>>
    /\ h' = [h EXCEPT !.meas.fn = "incoherent_sum",
                      !.meas.out = IncoherentSum(h.meas.wavefield,
                                                 h.meas.detector_slice,
                                                 h.meas.epsilon,
                                                 h.meas.saturation,
                                                 h.meas.oversampling)]
    /\ UNCHANGED <<loss_train, params, grad, attrs, job, gen, mpc, it,
                   normalization, run, alive, stop_event, result_queue,
                   interrupted>>

NextSum == CallIncoherentSum

SpecSum == InitSum /\ [][NextSum]_vars

\* ------------------------------------------------ binning a measurement
\* the shapes <<L, M * k, N * k>> of the stacks that are binned with k = 2
BinnedShapes == {<<1, 2, 2>>, <<1, 2, 4>>, <<2, 2, 2>>}

InitBin ==
    \E wavefields \in UNION {[1..sh[1] -> [1..sh[2] -> [1..sh[3] -> FewPixels]]] : sh \in BinnedShapes},
       detector_slice \in DetectorSlices, epsilon \in 0..MaxEps,
       saturation \in Saturations :
       Measuring([fn |-> "none", wavefield |-> wavefields,
                  detector_slice |-> detector_slice, epsilon |-> epsilon,
                  saturation |-> saturation, oversampling |-> 2,
                  out |-> <<>>])

\* sim = intensity(wavefield, detector_slice, epsilon, saturation,
\* oversampling) of the wavefield held as a stack of one
MeasureIntensity ==
    /\ gen = "none"
    /\ h.meas.fn = "none"
    /\ Len(h.meas.wavefield) = 1
    /\ h' = [h EXCEPT !.meas.fn = "intensity",
                      !.meas.out = Intensity(h.meas.wavefield[1],
                                             h.meas.detector_slice,
                                             h.meas.epsilon,
                                             h.meas.saturation,
                                             h.meas.oversampling)]
    /\ UNCHANGED <<loss_train, params, grad, attrs, job, gen, mpc, it,
                   normalization, run, alive, stop_event, result_queue,
                   interrupted>>

NextBin ==
    \/ MeasureIntensity
    \/ CallIncoherentSum

SpecBin == InitBin /\ [][NextBin]_vars

\* ------------------------------------------- a measurement on a background
InitBackground ==
    \E wavefields \in WavefieldStacks, detector_slice \in DetectorSlices,
       epsilon \in 0..MaxEps, saturation \in Saturations,
       oversampling \in {1, 2},
       background \in (-MaxBackground)..MaxBackground :
       /\ Len(wavefields) = 1
       /\ Poolable(wavefields[1], oversampling)
       /\ Measuring([fn |-> "none", wavefield |-> wavefields,
                     detector_slice |-> detector_slice, epsilon |-> epsilon,
                     saturation |-> saturation, oversampling |-> oversampling,
                     out |-> <<>>, background |-> background])

\* sim = quadratic_background(wavefield, background, detector_slice,
\* epsilon=epsilon, saturation=saturation, oversampling=oversampling) of the
\* wavefield held as a stack of one
CallQuadraticBackground ==
    /\ gen = "none"
    /\ h.meas.fn = "none"
    /\ Len(h.meas.wavefield) = 1
    /\ h' = [h EXCEPT !.meas.fn = "quadratic_background",
                      !.meas.out = QuadraticBackground(h.meas.wavefield[1],
                                                       h.meas.background,
                                                       h.meas.detector_slice,
                                                       h.meas.epsilon,
                                                       h.meas.saturation,
                                                       h.meas.oversampling)]
    /\ UNCHANGED <<loss_train, params, grad, attrs, job, gen, mpc, it,
                   normalization, run, alive, stop_event, result_queue,
                   interrupted>>

NextBackground == CallQuadraticBackground

SpecBackground == InitBackground /\ [][NextBackground]_vars

\* a caller that holds a field and the arguments of a polarization function
Polarizing(args) ==
    /\ loss_train = <<>>
    /\ params = 0
    /\ grad = 0
    /\ attrs = [cls |-> SimplePtycho, figs |-> FALSE, slider |-> FALSE,
                regularizer |-> TRUE, buffers |-> NoGeometry]
    /\ job = NoJob
    /\ gen = "none"
    /\ mpc = "none"
    /\ it = 0
    /\ normalization = 0
    /\ run = IdleRun
    /\ alive = {}
    /\ stop_event = FALSE
    /\ result_queue = <<>>
    /\ interrupted = FALSE
    /\ h = [NoHistory EXCEPT !.pol = args]

InitPol ==
    \E probe \in Fields, angle \in AngleArgs, multiple_modes \in BOOLEAN :
        Polarizing([NoPolarization EXCEPT !.probe = probe, !.angle = angle,
                                          !.multiple_modes = multiple_modes])

\* the angles of the polarizers crossed with the ones at pol_angle
Crossed(pol_angle) ==
    [pol_angle EXCEPT !.v = [i \in DOMAIN pol_angle.v |-> pol_angle.v[i] + 90]]

\* apply_jones_matrix(probe, identity, multiple_modes=...)
CallApplyJonesMatrix ==
    /\ h.pol.fn = "none"
    /\ h.pol.probe # <<>>
    /\ h' = [h EXCEPT !.pol.fn = "apply_jones_matrix",
                       !.pol.out = ApplyJonesMatrix(h.pol.probe,
                                       IdentityMatrix, TRUE,
                                       h.pol.multiple_modes)]
    /\ UNCHANGED <<loss_train, params, grad, attrs, job, gen, mpc, it,
                   normalization, run, alive, stop_event, result_queue,
                   interrupted>>

\* the field through generate_linear_polarizer(angle) and through
\* generate_linear_polarizer(angle + 90), each with apply_jones_matrix
CallCrossedPolarizers ==
    /\ h.pol.fn = "none"
    /\ h.pol.probe # <<>>
    /\ h' = [h EXCEPT !.pol.fn = "generate_linear_polarizer",
                       !.pol.out = ApplyJonesMatrix(h.pol.probe,
                                       GenerateLinearPolarizer(h.pol.angle),
                                       TRUE, h.pol.multiple_modes),
                       !.pol.crossed = ApplyJonesMatrix(h.pol.probe,
                                       GenerateLinearPolarizer(
                                           Crossed(h.pol.angle)),
                                       TRUE, h.pol.multiple_modes)]
    /\ UNCHANGED <<loss_train, params, grad, attrs, job, gen, mpc, it,
                   normalization, run, alive, stop_event, result_queue,
                   interrupted>>

\* apply_linear_polarizer(probe, angle, multiple_modes=...)
CallApplyLinearPolarizer ==
    /\ h.pol.fn = "none"
    /\ h.pol.probe # <<>>
    /\ h' = [h EXCEPT !.pol.fn = "apply_linear_polarizer",
                       !.pol.out = ApplyLinearPolarizer(h.pol.probe,
                                       h.pol.angle, h.pol.multiple_modes,
                                       TRUE)]
    /\ UNCHANGED <<loss_train, params, grad, attrs, job, gen, mpc, it,
                   normalization, run, alive, stop_event, result_queue,
                   interrupted>>

\* apply_phase_retardance(probe, phase_shift), phase_shift a number
CallApplyPhaseRetardance ==
    /\ h.pol.fn = "none"
    /\ h.pol.probe # <<>>
    /\ h.pol.angle.dim = 0
    /\ h' = [h EXCEPT !.pol.fn = "apply_phase_retardance",
                       !.pol.out = ApplyPhaseRetardance(h.pol.probe,
                                       h.pol.angle.v[1])]
    /\ UNCHANGED <<loss_train, params, grad, attrs, job, gen, mpc, it,
                   normalization, run, alive, stop_event, result_queue,
                   interrupted>>

NextPol ==
    \/ CallApplyJonesMatrix
    \/ CallCrossedPolarizers
    \/ CallApplyLinearPolarizer
    \/ CallApplyPhaseRetardance

SpecPol == InitPol /\ [][NextPol]_vars

\* ------------------------------------------------- the optimizer wrappers
\* dataset[i] of the full dataset: Python indices start at 0
DatasetItem(i) == i + 1

\* if type(subset) == type(1): subset = [subset]
SubsetList(subset) ==
    IF subset.kind = "int" THEN <<subset.v[1]>> ELSE subset.v

\* torchdata.Subset(dataset, subset): item k is dataset[subset[k]]
SubsetDataIgnored(full, subset) == Range(full)

SubsetData(full, subset) ==
    IF subset.kind = "none" THEN Range(full)
    ELSE LET S == SubsetList(subset)
         IN  [k \in 1..Len(S) |-> DatasetItem(S[k])]

\* DataLoader(dataset, batch_size=len(dataset)) of LBFGS_optimize
LBFGSBatchSizeDefault(data) == 1

LBFGSBatchSize(data) == Len(data)

\* the DataLoader of SGD_optimize; batch_size 0 stands for batch_size=None:
\* DataLoader(dataset, batch_size=batch_size, shuffle=True), or
\* DataLoader(dataset) with the defaults batch_size=1, shuffle=False
SGDLoaderAlwaysShuffled(batch_size) ==
    [batch_size |-> IF batch_size = 0 THEN 1 ELSE batch_size,
     shuffle |-> TRUE]

SGDLoader(batch_size) ==
    IF batch_size # 0
    THEN [batch_size |-> batch_size, shuffle |-> TRUE]
    ELSE [batch_size |-> 1, shuffle |-> FALSE]

\* the subset arguments: None, an index, a list of indices; the index i is
\* held in v as <<i>>, told from the list [i] by its kind
Subsets(full) ==
    {NoSubset}
    \cup {[kind |-> "int", v |-> <<i>>] : i \in 0..(full - 1)}
    \cup {[kind |-> "list", v |-> l] :
             l \in UNION {[1..k -> 0..(full - 1)] : k \in 1..MaxSubset}}

\* the AD_optimize call each wrapper makes on a dataset of MaxPat patterns;
\* batch_size 0 stands for SGD_optimize's batch_size=None, and arg keeps the
\* batch_size the wrapper was called with
WrapperJobs ==
    {[iterations |-> a.iterations, thread |-> a.thread,
      n |-> Len(SubsetData(MaxPat, a.subset)),
      data |-> SubsetData(MaxPat, a.subset),
      batch_size |-> CASE a.which = "LBFGS" ->
                            LBFGSBatchSize(SubsetData(MaxPat, a.subset))
                       [] a.which = "SGD" ->
                            SGDLoader(a.batch_size).batch_size
                       [] OTHER -> a.batch_size,
      shuffle |-> CASE a.which = "LBFGS" -> FALSE
                    [] a.which = "SGD" -> SGDLoader(a.batch_size).shuffle
                    [] OTHER -> TRUE,
      width |-> 2, regfac |-> FALSE,
      evals |-> IF a.which = "LBFGS" THEN MaxEvals ELSE 1,
      via |-> a.which, subset |-> a.subset, arg |-> a.batch_size] :
     a \in {b \in [which : {"Adam", "LBFGS", "SGD"},
                   subset : Subsets(MaxPat),
                   batch_size : 0..MaxSubset,
                   iterations : 0..MaxRecord, thread : BOOLEAN] :
              /\ b.which = "Adam" => b.batch_size > 0
              /\ b.which = "LBFGS" => b.batch_size = 0}}

\* one wrapper call on a fresh model, which no KeyboardInterrupt reaches
NextWrap ==
    \/ gen = "none" /\ StartCall(WrapperJobs)
    \/ Undisturbed

SpecWrap == Init /\ [][NextWrap]_vars

\* ----------------------------------------------- the closure on its own
\* the minibatches a closure may be defined over: the patterns of a dataset
\* in any order a loader may deliver them
ClosureBatches ==
    {b \in UNION {[1..k -> 1..MaxPat] : k \in 1..MaxPat} :
        \A x, y \in DOMAIN b : x # y => b[x] # b[y]}

\* optimizer.step(closure) has just been entered for one minibatch of an epoch
\* that runs on the calling thread, with whatever gradient the last step left
InitClosure ==
    /\ loss_train = <<>>
    /\ params \in {0, 1}
    /\ grad \in {0, 3}
    /\ attrs \in [cls : {SimplePtycho}, figs : {FALSE}, slider : {FALSE},
                 regularizer : BOOLEAN, buffers : {NoGeometry}]
    /\ \E b \in ClosureBatches, w \in 1..(MaxPat + 1), rf \in BOOLEAN :
          /\ job = [iterations |-> 1, thread |-> FALSE, n |-> MaxPat,
                    data |-> Range(MaxPat),
                    batch_size |-> Len(b), shuffle |-> TRUE, width |-> w,
                    regfac |-> rf, evals |-> MaxEvals,
                    via |-> "AD_optimize", subset |-> NoSubset]
          /\ run = [IdleRun EXCEPT !.pc = "closure", !.N = 1, !.batch = b]
    /\ gen = "running"
    /\ mpc = "run"
    /\ it = 0
    /\ normalization = SeqSum([k \in 1..MaxPat |-> PatSum(k)])
    /\ alive = {}
    /\ stop_event = FALSE
    /\ result_queue = <<>>
    /\ interrupted = FALSE
    /\ h = [NoHistory EXCEPT !.epochs = 1, !.steps = 1]

NextClosure ==
    \/ ClosureBegin
    \/ ChunkCheck
    \/ ChunkCompute
    \/ ClosureEnd
    \/ OptReEval

SpecClosure == InitClosure /\ [][NextClosure]_vars

\* ------------------------------------------------------------- the claims
RECURSIVE Flatten(_)
Flatten(ss) == IF ss = <<>> THEN <<>> ELSE Head(ss) \o Flatten(Tail(ss))

\* C1: a call that is consumed to exhaustion without an exception or an
\* interrupt has yielded exactly `iterations` values, has started exactly
\* that many epochs and has appended exactly that many entries to
\* loss_train; a further request on the exhausted generator changes none of
\* this (the formula also covers the states after such a request).
C1_ExhaustedYieldsN ==
    (gen = "done" /\ h.end = "exhausted") =>
        /\ h.yields = job.iterations
        /\ h.epochs = job.iterations
        /\ Len(loss_train) = h.base + job.iterations

C1_Witness ==
    /\ gen = "done"
    /\ h.end = "exhausted"
    /\ h.after
    /\ job.thread
    /\ job.iterations = 2
    /\ h.yields = 2
    /\ Len(loss_train) = 2

\* C2: every step leaves loss_train unchanged or appends one entry to its
\* end; an epoch that completes appends; and the value of the k-th yield of
\* a call is the last entry of loss_train, which is entry number base + k.
C2_AppendOnly ==
    [][ /\ \/ loss_train' = loss_train
           \/ /\ Len(loss_train') = Len(loss_train) + 1
              /\ SubSeq(loss_train', 1, Len(loss_train)) = loss_train
        /\ (run.pc # "ret" /\ run'.pc = "ret") =>
               /\ Len(loss_train') = Len(loss_train) + 1
               /\ Last(loss_train') = run'.ret
        /\ (h'.yields = h.yields + 1) =>
               /\ Len(loss_train') = h'.base + h'.yields
               /\ h'.lastYield = Last(loss_train')
      ]_vars

C2_Witness ==
    /\ gen = "suspended"
    /\ h.base = 1
    /\ h.yields = 1
    /\ Len(loss_train) = 2
    /\ loss_train[1] # loss_train[2]
    /\ h.lastYield = loss_train[2]

\* C3 (as claimed): when the stop signal was raised while the threaded epoch
\* was still computing and the interrupt has propagated to the caller,
\* loss_train has the length it had when that epoch began.
C3_CancelledEpochAbsent ==
    (gen = "done" /\ h.end = "KeyboardInterrupt" /\ h.stopLive) =>
        Len(loss_train) = h.epochBase

C7_NoReadInFlight == h.read # "inflight"

\* C8: within one optimizer.step, any two closure evaluations made at the
\* same parameter values leave the same accumulated gradient and return the
\* same total loss.
C8_ClosureIdempotent ==
    \A a, b \in DOMAIN h.evals :
        h.evals[a].params = h.evals[b].params =>
            /\ h.evals[a].grad = h.evals[b].grad
            /\ h.evals[a].total = h.evals[b].total

C8_Witness ==
    /\ Len(h.evals) = 2
    /\ h.evals[1].params = h.evals[2].params
    /\ h.evals[1].grad > 0
    /\ Len(run.batch) = 2
    /\ job.regfac
    /\ attrs.regularizer

\* C9: parameters change only in a step of optimizer.step, and an epoch
\* that has completed made exactly ceil(n / batch_size) optimizer.step calls.
C9_StepPerBatch ==
    [][ /\ (params' # params) => (Running /\ run.pc = "opt")
        /\ (run'.pc = "ret") =>
               h'.steps = CeilDiv(job'.n, job'.batch_size)
      ]_vars

C9_Witness ==
    /\ run.pc = "ret"
    /\ job.n = 3
    /\ job.batch_size = 2
    /\ h.steps = 2
    /\ params # 0

\* C10: when a closure evaluation returns, the chunks it processed are
\* ceil(B / w) contiguous slices of the minibatch, in order, each of w
\* patterns except possibly the last, together the whole minibatch; its
\* total loss and its gradient are those of the minibatch taken as a single
\* chunk.
C10_WidthIndependent ==
    (run.pc = "opt") =>
        LET B == Len(run.batch)
            w == job.width
            c == h.chunkLog
        IN  /\ Len(c) = CeilDiv(B, w)
            /\ Flatten(c) = run.batch
            /\ \A k \in 1..(Len(c) - 1) : Len(c[k]) = w
            /\ Len(c) > 0 => (Len(c[Len(c)]) >= 1 /\ Len(c[Len(c)]) <= w)
            /\ run.total = ChunkLoss(run.batch, params)
            /\ grad = ChunkGrad(run.batch, params)
                      + (IF job.regfac /\ attrs.regularizer
                         THEN RegGrad(params) ELSE 0)

C10_Witness ==
    /\ run.pc = "opt"
    /\ Len(run.batch) = 3
    /\ job.width = 2
    /\ Len(h.chunkLog) = 2
    /\ Len(h.chunkLog[2]) = 1

\* C11: the value an epoch records and returns is the sum of the losses
\* optimizer.step returned for the minibatches of that epoch, over the
\* normalization; the normalization is the sum of all patterns of the
\* loader's dataset whatever the batch size, it is assigned only by the
\* pass that the first request of the call runs, and every epoch of the
\* call divides by it.
C11_NormalizedLoss ==
    [][ /\ (run.pc # "ret" /\ run'.pc = "ret") =>
               /\ run'.ret[1] = SeqSum(h'.stepRet)
               /\ run'.ret[2] = SeqSum([k \in 1..job'.n |->
                                            PatSum(job'.data[k])])
               /\ Last(loss_train') = run'.ret
        /\ (normalization' # normalization) =>
               \/ gen = "running" /\ mpc = "norm" /\ h.epochs = 0
               \/ gen' = "created"
      ]_vars

C11_Witness ==
    /\ run.pc = "ret"
    /\ it = 1
    /\ job.n = 3
    /\ job.batch_size = 2
    /\ Len(h.stepRet) = 2
    /\ h.stepRet[1] # h.stepRet[2]
    /\ run.ret[2] = 6
    /\ loss_train[1][2] = 6

C13_ForwardComposes ==
    LET c == h.fwd.calls
        order == <<"interaction", "forward_propagator", "measurement">>
    IN  /\ Resolve(attrs.cls, "forward") = "CDIModel"
        /\ attrs.cls = SimplePtycho =>
               /\ \A k \in 1..3 : Resolve(attrs.cls, order[k]) = "SimplePtycho"
               /\ "forward" \notin attrs.cls.defines
        /\ c # <<>> =>
               /\ Len(c) <= 3
               /\ \A k \in 1..Len(c) : c[k].f = order[k]
               /\ \A k \in 1..(Len(c) - 1) : c[k].out.ok
               /\ \A k \in 2..Len(c) : c[k].arg = c[k - 1].out.val
               /\ (h.chunkLog # <<>> /\ run.pc \in {"check", "reg"}) =>
                      c[1].arg = Last(h.chunkLog)
               /\ h.fwd.ok = (Len(c) = 3 /\ c[Len(c)].out.ok)
               /\ h.fwd.ok => h.fwd.val = c[3].out.val
               /\ ~h.fwd.ok => ~c[Len(c)].out.ok

C13_Witness ==
    /\ attrs.cls = SimplePtycho
    /\ run.pc = "reg"
    /\ job.thread
    /\ h.fwd.ok
    /\ Len(h.fwd.calls) = 3
    /\ h.fwd.calls[1].arg = <<1>>
    /\ h.fwd.val = <<"measurement",
                     <<"forward_propagator", <<"interaction", <<1>>>>>>>>

\* the required methods the class of the model does not define
Missing == Stages \ attrs.cls.defines

C15_StopObservedIsTerminal ==
    [][ /\ (h.stopSeen /\ h'.stopSeen) =>
               /\ params' = params /\ grad' = grad
               /\ loss_train' = loss_train
               /\ result_queue' = result_queue
               /\ h'.fwd = h.fwd /\ h'.chunkLog = h.chunkLog
               /\ h'.steps = h.steps /\ h'.stepRet = h.stepRet
               /\ h'.yields = h.yields /\ h'.epochs = h.epochs
               /\ gen' \in {"running", "done"}
        /\ h'.stopSeen =>
               /\ run'.pc \in {"exit", "idle"}
               /\ mpc' \in {"hjoin", "none"}
               /\ Len(loss_train') = h'.epochBase
               /\ result_queue' = <<>>
               /\ gen' = "done" => h'.end = "KeyboardInterrupt"
      ]_vars

C15_Witness ==
    /\ gen = "done"
    /\ h.stopSeen
    /\ h.end = "KeyboardInterrupt"
    /\ job.iterations = 2
    /\ h.yields = 1
    /\ h.epochs = 2
    /\ Len(loss_train) = h.base + 1
    /\ h.chunkLog # <<>>
    /\ grad # 0

\* how often x occurs in the sequence s
CountIn(s, x) == Cardinality({k \in 1..Len(s) : s[k] = x})

\* the indices a wrapper call selects
Selected ==
    CASE job.subset.kind = "none" -> 0..(MaxPat - 1)
      [] job.subset.kind = "int" -> {job.subset.v[1]}
      [] OTHER -> {job.subset.v[k] : k \in 1..Len(job.subset.v)}

\* the patterns the call's loader holds, from the subset argument alone
Entries ==
    CASE job.subset.kind = "none" -> [k \in 1..MaxPat |-> k]
      [] job.subset.kind = "int" -> <<job.subset.v[1] + 1>>
      [] OTHER -> [k \in 1..Len(job.subset.v) |-> job.subset.v[k] + 1]

\* C16 (as claimed): in a wrapper call every pattern the loader delivers,
\* every chunk the closure evaluates and the normalization come from the
\* selected indices only (an int i selects [i]); when an epoch completes,
\* every selected index was delivered exactly once and no other index at
\* all; and the epoch made ceil(n / batch_size) steps, an exhausted call
\* yielded and appended `iterations` times.
C16_SubsetEachIndexOnce ==
    (job.via # "AD_optimize") =>
        /\ job.subset.kind = "int" => job.data = <<job.subset.v[1] + 1>>
        /\ \A k \in 1..Len(h.delivered) : (h.delivered[k] - 1) \in Selected
        /\ \A k \in 1..Len(h.chunkLog) : \A m \in 1..Len(h.chunkLog[k]) :
               (h.chunkLog[k][m] - 1) \in Selected
        /\ normalization \in {0, BatchSum(Entries)}
        /\ (run.pc = "ret") =>
               /\ \A i \in 0..(MaxPat - 1) :
                      CountIn(h.delivered, i + 1)
                          = IF i \in Selected THEN 1 ELSE 0
               /\ h.steps = CeilDiv(Len(Entries), job.batch_size)
        /\ (gen = "done" /\ h.end = "exhausted") =>
               /\ h.yields = job.iterations
               /\ Len(loss_train) = job.iterations

\* C16 (amended): the same, but when an epoch completes every entry of the
\* subset list was delivered exactly once: an index is delivered as many
\* times as it occurs in the list.
C16_SubsetEachEntryOnce ==
    (job.via # "AD_optimize") =>
        /\ job.subset.kind = "int" => job.data = <<job.subset.v[1] + 1>>
        /\ \A k \in 1..Len(h.delivered) : (h.delivered[k] - 1) \in Selected
        /\ \A k \in 1..Len(h.chunkLog) : \A m \in 1..Len(h.chunkLog[k]) :
               (h.chunkLog[k][m] - 1) \in Selected
        /\ normalization \in {0, BatchSum(Entries)}
        /\ (run.pc = "ret") =>
               /\ \A i \in 0..(MaxPat - 1) :
                      CountIn(h.delivered, i + 1) = CountIn(Entries, i + 1)
               /\ h.steps = CeilDiv(Len(Entries), job.batch_size)
        /\ (gen = "done" /\ h.end = "exhausted") =>
               /\ h.yields = job.iterations
               /\ Len(loss_train) = job.iterations

C16_Witness ==
    /\ job.via = "Adam"
    /\ job.subset = [kind |-> "list", v |-> <<2, 0>>]
    /\ job.thread
    /\ run.pc = "ret"
    /\ it = 1
    /\ h.delivered = <<1, 3>>
    /\ normalization = 4

\* C17: while the chunks of a closure evaluation are processed the
\* regularizer has not been called; when the evaluation returns it was
\* called and back-propagated once, after the last chunk, exactly when a
\* regularization factor was given and the model has a regularizer; the
\* gradient then holds the chunks' gradient plus the regularizer's, and the
\* returned total loss is the chunks' loss alone in either case.
C17_RegularizerOncePerClosure ==
    /\ run.pc \in {"check", "compute"} => h.reg = <<>>
    /\ run.pc = "opt" =>
           /\ Len(h.reg) = IF job.regfac /\ attrs.regularizer THEN 1 ELSE 0
           /\ \A k \in 1..Len(h.reg) :
                  h.reg[k] = CeilDiv(Len(run.batch), job.width)
           /\ grad = ChunkGrad(run.batch, params)
                     + (IF job.regfac /\ attrs.regularizer
                        THEN RegGrad(params) ELSE 0)
           /\ run.total = ChunkLoss(run.batch, params)
           /\ Last(h.evals).total = ChunkLoss(run.batch, params)

C17_Witness ==
    /\ run.pc = "opt"
    /\ job.regfac
    /\ attrs.regularizer
    /\ h.reg = <<2>>
    /\ Len(run.batch) = 3
    /\ job.width = 2
    /\ run.evals = 2
    /\ grad = ChunkGrad(run.batch, params) + RegGrad(params)

\* C18: in an LBFGS_optimize call the first minibatch of an epoch holds every
\* pattern of the (sub)dataset in dataset order and leaves none for a second
\* one, so the epoch makes one optimizer step; every closure evaluation of
\* that step has processed, chunk after chunk, the whole (sub)dataset in
\* order when it returns.
C18_LBFGSFullBatch ==
    (job.via = "LBFGS") =>
        /\ run.pc \in {"closure", "check", "compute", "reg", "opt"} =>
               /\ run.batch = Entries
               /\ run.todo = <<>>
               /\ run.N = 1
               /\ h.steps = 1
        /\ run.pc = "opt" => Flatten(h.chunkLog) = Entries
        /\ run.pc = "ret" =>
               /\ h.steps = 1
               /\ h.delivered = Entries
               /\ Len(h.stepRet) = 1

C18_Witness ==
    /\ job.via = "LBFGS"
    /\ job.subset = NoSubset
    /\ run.pc = "opt"
    /\ run.evals = 2
    /\ Len(h.chunkLog) = 2
    /\ Flatten(h.chunkLog) = <<1, 2, 3>>
    /\ h.epochs = 2
    /\ h.steps = 1

\* C19 (as claimed): what get_detector_geometry() returns has exactly the
\* recognised keys stored so far, after a single store on a fresh model the
\* recognised keys of that mapping, and under each key a value numerically
\* equal to the one passed last for it.
C19_GeometryCarriesStoredValue ==
    h.got.called =>
        /\ DOMAIN h.got.val = DOMAIN h.given
        /\ h.nstore = 1 => DOMAIN h.got.val = h.lastKeys \cap GeometryKeys
        /\ h.nstore = 0 => h.got.val = NoGeometry
        /\ \A k \in DOMAIN h.got.val : h.got.val[k].v = h.given[k].v

\* C19 (amended): the same key set, and under each key the tensor
\* t.as_tensor makes of the value passed last for it: numerically equal to
\* it unless it was a Python float, which is rounded to float32.
C19_GeometryCarriesTensorOfStored ==
    h.got.called =>
        /\ DOMAIN h.got.val = DOMAIN h.given
        /\ h.nstore = 1 => DOMAIN h.got.val = h.lastKeys \cap GeometryKeys
        /\ h.nstore = 0 => h.got.val = NoGeometry
        /\ \A k \in DOMAIN h.got.val :
               /\ h.got.val[k] = AsTensor(h.given[k])
               /\ h.got.val[k].kind = "tensor"
               /\ h.given[k].kind # "float" =>
                      h.got.val[k].v = h.given[k].v
               /\ h.given[k].kind = "float" =>
                      h.got.val[k].v = RoundToFloat32(h.given[k].v)

C19_Witness ==
    /\ h.got.called
    /\ h.nstore = 2
    /\ h.lastKeys = {"distance", "wavelength"}
    /\ DOMAIN h.got.val = {"distance", "basis"}
    /\ h.given["distance"] = PyFloat(0)
    /\ h.got.val["distance"] = [kind |-> "tensor", dtype |-> "float32", v |-> 0]
    /\ h.got.val["basis"] = [kind |-> "tensor", dtype |-> "float64", v |-> 1]

\* |w|^2 + epsilon of pixel <<i, j>> of the measured wavefield
Expected(i, j) ==
    Scale * (h.meas.wavefield[i][j][1] * h.meas.wavefield[i][j][1]
             + h.meas.wavefield[i][j][2] * h.meas.wavefield[i][j][2])
    + h.meas.epsilon

\* the result has the wavefield's spatial shape
SameShape ==
    /\ Len(h.meas.out) = Len(h.meas.wavefield)
    /\ \A i \in 1..Len(h.meas.out) :
           Len(h.meas.out[i]) = Len(h.meas.wavefield[i])

\* C20 (as claimed): for epsilon >= 0, no slice and oversampling 1, every
\* element of intensity(w) is |w|^2 + epsilon and not negative when no
\* saturation is given; with a saturation s it is
\* min(max(|w|^2 + epsilon, 0), s) and lies in [0, s].
C20_IntensityClampedIntoRange ==
    (/\ h.meas.fn = "intensity"
     /\ h.meas.epsilon >= 0
     /\ ~h.meas.detector_slice.given
     /\ h.meas.oversampling = 1) =>
        /\ SameShape
        /\ \A i \in 1..Len(h.meas.out) : \A j \in 1..Len(h.meas.out[i]) :
               IF ~h.meas.saturation.given
               THEN /\ h.meas.out[i][j] = Expected(i, j)
                    /\ h.meas.out[i][j] >= 0
               ELSE /\ h.meas.out[i][j]
                         = Min(Max(Expected(i, j), 0), h.meas.saturation.v)
                    /\ h.meas.out[i][j] >= 0
                    /\ h.meas.out[i][j] <= h.meas.saturation.v

\* C20 (amended): the same, the range [0, s] being claimed for a
\* saturation s >= 0 only.
C20_IntensityClampedIntoRangeIfAny ==
    (/\ h.meas.fn = "intensity"
     /\ h.meas.epsilon >= 0
     /\ ~h.meas.detector_slice.given
     /\ h.meas.oversampling = 1) =>
        /\ SameShape
        /\ \A i \in 1..Len(h.meas.out) : \A j \in 1..Len(h.meas.out[i]) :
               /\ ~h.meas.saturation.given =>
                      /\ h.meas.out[i][j] = Expected(i, j)
                      /\ h.meas.out[i][j] >= 0
               /\ (h.meas.saturation.given /\ h.meas.saturation.v >= 0) =>
                      /\ h.meas.out[i][j]
                           = Min(Max(Expected(i, j), 0), h.meas.saturation.v)
                      /\ h.meas.out[i][j] >= 0
                      /\ h.meas.out[i][j] <= h.meas.saturation.v

C20_Witness ==
    /\ h.meas.fn = "intensity"
    /\ h.meas.wavefield = <<<< <<0, 0>>, <<-1, 2>> >>, << <<2, 2>>, <<0, -1>> >>>>
    /\ h.meas.epsilon = 1
    /\ h.meas.saturation = [given |-> TRUE, v |-> 2]
    /\ h.meas.out = << <<1, 2>>, <<2, 2>> >>

\* SUM_i |w_i|^2 of pixel <<i, j>> of the measured stack
SummedSquares(i, j) ==
    SeqSum([l \in 1..Len(h.meas.wavefield) |->
        Scale * (h.meas.wavefield[l][i][j][1] * h.meas.wavefield[l][i][j][1]
                 + h.meas.wavefield[l][i][j][2]
                   * h.meas.wavefield[l][i][j][2])])

\* the single array SUM_i |w_i|^2 of the measured stack
SummedImage ==
    [i \in 1..Len(h.meas.wavefield[1]) |->
        [j \in 1..Len(h.meas.wavefield[1][i]) |-> SummedSquares(i, j)]]

\* bin -> slice -> add epsilon -> clamp, with the measurement's arguments
Pipeline(image) ==
    LET binned  == IF h.meas.oversampling # 1
                   THEN AvgPool2d(image, h.meas.oversampling) ELSE image
        cropped == IF h.meas.detector_slice.given
                   THEN Sliced(binned, h.meas.detector_slice) ELSE binned
        added   == AddScalar(cropped, h.meas.epsilon)
    IN  IF h.meas.saturation.given
        THEN Clamp(added, 0, h.meas.saturation.v) ELSE added

\* C21: incoherent_sum returns bin -> slice -> add epsilon -> clamp of the
\* one array SUM_i |w_i|^2; without binning and slice every element is the
\* sum over the stack plus epsilon once, and that sum, not each component,
\* is what the saturation clamps.
C21_IncoherentSumThenPipeline ==
    h.meas.fn = "incoherent_sum" =>
        /\ h.meas.out = Pipeline(SummedImage)
        /\ (h.meas.oversampling = 1 /\ ~h.meas.detector_slice.given) =>
               \A i \in 1..Len(h.meas.out) :
                  \A j \in 1..Len(h.meas.out[i]) :
                     h.meas.out[i][j] =
                        IF h.meas.saturation.given
                        THEN Min(Max(SummedSquares(i, j) + h.meas.epsilon, 0),
                                 h.meas.saturation.v)
                        ELSE SummedSquares(i, j) + h.meas.epsilon

C21_Witness ==
    /\ h.meas.fn = "incoherent_sum"
    /\ Len(h.meas.wavefield) = 2
    /\ h.meas.wavefield[1] = << << <<-1, 2>>, <<0, 0>> >> >>
    /\ h.meas.wavefield[2] = << << <<-1, 2>>, <<-1, 2>> >> >>
    /\ h.meas.epsilon = 1
    /\ h.meas.saturation = [given |-> TRUE, v |-> 2]
    /\ h.meas.oversampling = 1
    /\ ~h.meas.detector_slice.given
    /\ h.meas.out = << <<2, 2>> >>

\* the sum of SUM_l |w_l|^2 over the k x k source block of binned pixel
\* <<i, j>>
BlockTotal(i, j, k) ==
    SeqSum([a \in 1..k |->
        SeqSum([b \in 1..k |->
            SummedSquares((i - 1) * k + a, (j - 1) * k + b)])])

\* element <<i, j>> of the result, taken from binned pixel <<bi, bj>>, is
\* the block's average plus epsilon, clamped if a saturation is given
FromBlock(i, j, bi, bj, k) ==
    LET x == h.meas.out[i][j]
        clamped == h.meas.saturation.given
    IN  /\ ~clamped =>
               k * k * x = BlockTotal(bi, bj, k) + k * k * h.meas.epsilon
        /\ clamped =>
               k * k * x
                  = Min(Max(BlockTotal(bi, bj, k) + k * k * h.meas.epsilon,
                            0), k * k * h.meas.saturation.v)

\* C22: with oversampling k > 1 on a wavefield of spatial shape
\* (M * k, N * k), intensity and incoherent_sum return, without a slice,
\* an M x N array whose pixel <<i, j>> is the average of |w|^2 over source
\* block <<i, j>> plus epsilon; with a slice [a:b, c:d] they return the
\* rows a..b-1 and columns c..d-1 of that M x N array.
C22_BinThenSlice ==
    (h.meas.fn \in {"intensity", "incoherent_sum"}
         /\ h.meas.oversampling > 1) =>
        LET k  == h.meas.oversampling
            M  == Len(h.meas.wavefield[1]) \div k
            N  == Len(h.meas.wavefield[1][1]) \div k
            sl == h.meas.detector_slice
            r0 == IF sl.given THEN sl.rows[1] ELSE 0
            r1 == IF sl.given THEN Min(sl.rows[2], M) ELSE M
            c0 == IF sl.given THEN sl.cols[1] ELSE 0
            c1 == IF sl.given THEN Min(sl.cols[2], N) ELSE N
        IN  /\ Len(h.meas.out) = Max(r1 - r0, 0)
            /\ \A i \in 1..Len(h.meas.out) :
                   /\ Len(h.meas.out[i]) = Max(c1 - c0, 0)
                   /\ \A j \in 1..Len(h.meas.out[i]) :
                          FromBlock(i, j, r0 + i, c0 + j, k)

C22_Witness ==
    /\ h.meas.fn = "intensity"
    /\ h.meas.oversampling = 2
    /\ h.meas.wavefield =
          << << << <<0, 0>>, <<0, 0>>, <<-1, 2>>, <<0, 0>> >>,
                << <<0, 0>>, <<0, 0>>, <<-1, 2>>, <<-1, 2>> >> >> >>
    /\ h.meas.detector_slice = DetectorSlice(0, 2, 1, 2)
    /\ h.meas.epsilon = 1
    /\ ~h.meas.saturation.given
    /\ h.meas.out = << <<16>> >>

\* intensity(w), without saturation, of the wavefield a background was
\* added to
Unsaturated ==
    Intensity(h.meas.wavefield[1], h.meas.detector_slice, h.meas.epsilon,
              None, h.meas.oversampling)

\* C23: quadratic_background(w, b) has the shape of intensity(w); without
\* saturation every element is intensity(w) + b^2 and not negative, for
\* negative b too; with a saturation s it is
\* min(max(intensity_without_saturation(w) + b^2, 0), s), one clamp of the
\* sum, and so never above s.
C23_BackgroundThenClamp ==
    h.meas.fn = "quadratic_background" =>
        LET b2 == Scale * h.meas.background * h.meas.background
        IN  /\ Len(h.meas.out) = Len(Unsaturated)
            /\ \A i \in 1..Len(h.meas.out) :
                   /\ Len(h.meas.out[i]) = Len(Unsaturated[i])
                   /\ \A j \in 1..Len(h.meas.out[i]) :
                          IF h.meas.saturation.given
                          THEN /\ h.meas.out[i][j]
                                    = Min(Max(Unsaturated[i][j] + b2, 0),
                                          h.meas.saturation.v)
                               /\ h.meas.out[i][j] <= h.meas.saturation.v
                          ELSE /\ h.meas.out[i][j] = Unsaturated[i][j] + b2
                               /\ h.meas.out[i][j] >= 0

C23_Witness ==
    /\ h.meas.fn = "quadratic_background"
    /\ h.meas.wavefield = << << << <<0, 0>>, <<-1, 2>> >> >> >>
    /\ h.meas.background = -1
    /\ h.meas.epsilon = 1
    /\ h.meas.saturation = [given |-> TRUE, v |-> 2]
    /\ h.meas.oversampling = 1
    /\ ~h.meas.detector_slice.given
    /\ h.meas.out = << <<2, 2>> >>

\* two tensors of one shape with equal elements
SameTensor(A, B) ==
    /\ A.shape = B.shape
    /\ \A idx \in Indices(A.shape) :
           /\ A.at[idx][1] * B.den = B.at[idx][1] * A.den
           /\ A.at[idx][2] * B.den = B.at[idx][2] * A.den

\* the element of T at position c of the polarization axis, the third from
\* last, and at rest on the other axes
Component(T, rest, c) == T.at[InsertAt(rest, Dim(T) - 3, c)]

CConj(x) == <<x[1], -x[2]>>

\* the inner product of A and B along the polarization axis is zero
\* everywhere
Orthogonal(A, B) ==
    /\ A.shape = B.shape
    /\ \A rest \in Indices(RemoveAt(A.shape, Dim(A) - 2)) :
           CSum([c \in 1..2 |-> CMul(CConj(Component(A, rest, c)),
                                     Component(B, rest, c))]) = <<0, 0>>

\* C24 as claimed: apply_jones_matrix(f, identity) returns f unchanged,
\* with the same shape, for every field f.
C24_IdentityKeepsFieldAndShape ==
    /\ h.pol.fn = "apply_jones_matrix" =>
           /\ h.pol.out.ok
           /\ SameTensor(h.pol.out.val, h.pol.probe)
    /\ h.pol.fn = "generate_linear_polarizer" =>
           /\ h.pol.out.ok
           /\ h.pol.crossed.ok
           /\ Orthogonal(h.pol.out.val, h.pol.crossed.val)

\* C24: apply_jones_matrix(f, identity) returns the values of f unchanged,
\* with the shape of f, except that a field 2 x M x L without a mode axis
\* passed with multiple_modes=True comes back as 1 x 2 x M x L; and the
\* outputs of the linear polarizers at theta and theta + 90 applied to one
\* field have zero inner product along the polarization axis.
C24_IdentityKeepsFieldCrossedPolarizersOrthogonal ==
    /\ h.pol.fn = "apply_jones_matrix" =>
           /\ h.pol.out.ok
           /\ h.pol.out.val.den = 1
           /\ IF Dim(h.pol.probe) = 3 /\ h.pol.multiple_modes
              THEN SameTensor(h.pol.out.val, Unsqueeze(h.pol.probe, 0))
              ELSE SameTensor(h.pol.out.val, h.pol.probe)
    /\ h.pol.fn = "generate_linear_polarizer" =>
           /\ h.pol.out.ok
           /\ h.pol.crossed.ok
           /\ Orthogonal(h.pol.out.val, h.pol.crossed.val)

C24_Witness ==
    /\ h.pol.fn = "generate_linear_polarizer"
    /\ h.pol.angle = Scalar(45)
    /\ h.pol.probe.shape = <<1, 2, 1, 1>>
    /\ h.pol.probe.at[<<1, 1, 1, 1>>] = <<1, 0>>
    /\ h.pol.probe.at[<<1, 2, 1, 1>>] = <<1, -1>>
    /\ h.pol.out.ok
    /\ h.pol.out.val.den = 2
    /\ h.pol.out.val.at[<<1, 1, 1, 1>>] = <<2, -1>>
    /\ h.pol.crossed.ok
    /\ h.pol.crossed.val.at[<<1, 1, 1, 1>>] = <<0, 1>>
    /\ h.pol.crossed.val.at[<<1, 2, 1, 1>>] = <<0, -1>>

\* C25 as claimed: apply_linear_polarizer at 0 degrees to a field whose x
\* and y components are both 1 returns a field with x component 1 and y
\* component 0.
C25_PolarizerAtZeroKeepsX ==
    (/\ h.pol.fn = "apply_linear_polarizer"
     /\ h.pol.angle = Scalar(0)
     /\ \A idx \in Indices(h.pol.probe.shape) :
            h.pol.probe.at[idx] = <<1, 0>>) =>
        /\ h.pol.out.ok
        /\ LET out == h.pol.out.val
           IN  \A rest \in Indices(RemoveAt(out.shape, Dim(out) - 2)) :
                   /\ Component(out, rest, 1) = <<out.den, 0>>
                   /\ Component(out, rest, 2) = <<0, 0>>

\* the squared modulus of a complex number
AbsSq(x) == x[1] * x[1] + x[2] * x[2]

\* C26 as claimed: apply_phase_retardance leaves the x component
\* unchanged and multiplies the y component by a factor of modulus one,
\* and with phase_shift 0 it returns the field unchanged.
C26_RetardanceShiftsPhaseOfY ==
    (h.pol.fn = "apply_phase_retardance" /\ Dim(h.pol.probe) >= 4) =>
        /\ h.pol.out.ok
        /\ LET out == h.pol.out.val
               probe == h.pol.probe
           IN  /\ out.shape = probe.shape
               /\ \A rest \in Indices(RemoveAt(out.shape, Dim(out) - 2)) :
                      /\ Component(out, rest, 1)
                             = <<out.den * Component(probe, rest, 1)[1],
                                 out.den * Component(probe, rest, 1)[2]>>
                      /\ AbsSq(Component(out, rest, 2))
                             = out.den * out.den
                                   * AbsSq(Component(probe, rest, 2))
               /\ h.pol.angle.v[1] = 0 => SameTensor(out, probe)

\* C27 as claimed: every request for the next result of a threaded call
\* eventually returns a value or raises, however the worker ended.
C27_RequestReturnsOrRaises ==
    (gen = "running" /\ job.thread) ~> (gen # "running")

\* C28: the result queue of a threaded call is empty whenever a worker is
\* started and never holds more than one item; a worker puts into the empty
\* queue only and has nothing left to do but end once its item is there;
\* and the item a request takes is the one put by the worker of its own
\* epoch, which the request yields or raises.
C28_QueueHoldsOwnEpochsItem ==
    [][/\ (alive = {} /\ alive' # {}) => result_queue = <<>>
       /\ Len(result_queue') <= 1
       /\ Len(result_queue') > Len(result_queue) =>
              /\ result_queue = <<>>
              /\ alive = {it}
              /\ result_queue'[1].epoch = it
       /\ (alive' # {} /\ result_queue' # <<>>) => run'.pc = "exit"
       /\ (mpc = "get" /\ mpc' = "none" /\ ~interrupted') =>
              LET res == Head(result_queue)
              IN  /\ res.epoch = it
                  /\ result_queue' = <<>>
                  /\ IF res.kind = "exc"
                     THEN gen' = "done" /\ h'.err = res.err
                     ELSE gen' = "suspended" /\ h'.lastYield = res.val]_vars

C28_Witness ==
    /\ job.thread
    /\ gen = "suspended"
    /\ it = 1
    /\ h.yields = 2
    /\ Len(loss_train) = 2
    /\ h.lastYield = loss_train[2]
    /\ h.lastYield # loss_train[1]
    /\ result_queue = <<>>
    /\ alive = {}

C30_SGDMinibatches ==
    /\ (job.via = "SGD" /\ job.arg = 0) =>
           /\ job.batch_size = 1
           /\ ~job.shuffle
           /\ h.delivered = SubSeq(Entries, 1, Len(h.delivered))
           /\ InFlight => Len(run.batch) = 1
           /\ run.pc = "ret" =>
                  /\ h.steps = Len(Entries)
                  /\ h.delivered = Entries
    /\ (job.via = "SGD" /\ job.arg > 0) =>
           /\ job.batch_size = job.arg
           /\ job.shuffle
           /\ InFlight => Len(run.batch) <= job.arg
           /\ run.pc = "ret" =>
                  /\ h.steps = CeilDiv(Len(Entries), job.arg)
                  /\ \A i \in 0..(MaxPat - 1) :
                         CountIn(h.delivered, i + 1) = CountIn(Entries, i + 1)
    /\ (job.via # "AD_optimize" /\ run.pc = "ret") =>
           /\ h.steps = CeilDiv(Len(job.data), job.batch_size)
           /\ Len(h.stepRet) = h.steps
           /\ run.N = h.steps

C30_Witness ==
    /\ job.via = "SGD"
    /\ job.arg = 2
    /\ job.subset = NoSubset
    /\ run.pc = "ret"
    /\ h.steps = 2
    /\ h.delivered = <<3, 1, 2>>

====
